---- MODULE Spec2Model ----
(***************************************************************************)
(* Model of the multi-repository aggregation and caching engine of the    *)
(* GitHub developer tracker: MultiRepoTracker (default-branch             *)
(* aggregation and cross-repository merge), GitHubDevTracker (all-branch  *)
(* aggregation) and the dashboard server's two cache tiers.               *)
(***************************************************************************)
EXTENDS Integers, Sequences, FiniteSets, TLC

\* ------------------------------------------------------------------------
\* Bounds of the model
\* ------------------------------------------------------------------------
\* largest additions / deletions value the origin reports for one commit
MaxLines == 1

\* ------------------------------------------------------------------------
\* Program constants
\* ------------------------------------------------------------------------
\* page size of every paginated origin read
perPage == 100

\* ------------------------------------------------------------------------
\* Generic helpers
\* ------------------------------------------------------------------------
EmptyMap == [x \in {} |-> x]

Range(s) == {s[i] : i \in DOMAIN s}

Min(a, b) == IF a < b THEN a ELSE b

\* the items the origin returns for page `page` of a listing
PageOf(items, page) ==
    SubSeq(items, (page - 1) * perPage + 1, Min(page * perPage, Len(items)))

\* String.prototype.toLowerCase on the owner / organization names in use
toLowerCase(s) ==
    CASE s = "Acme" -> "acme"
      [] s = "ACME" -> "acme"
      [] s = "Other" -> "other"
      [] OTHER -> s

\* ------------------------------------------------------------------------
\* The origin (remote API) data the model draws its inputs from
\* ------------------------------------------------------------------------
Repos == {"r1", "r2"}

\* a listing is the items the origin holds and the page whose request
\* fails (0: no request fails)
Listing(items, failAt) == [items |-> items, failAt |-> failAt]

\* commits: login = "" stands for commit.author == null (no platform
\* account), gitAuthor = FALSE for commit.commit.author == null
Commit(sha, login, name, email) ==
    [sha |-> sha, login |-> login, gitAuthor |-> TRUE, name |-> name, email |-> email]

cA1 == Commit("s1", "alice", "Alice", "alice@x.io")
cA2 == Commit("s2", "alice", "", "")
cB1 == Commit("s3", "", "bob", "bob@x.io")
cBad == [sha |-> "s4", login |-> "alice", gitAuthor |-> FALSE, name |-> "", email |-> ""]

CommitListings ==
    { Listing(<<>>, 0),
      Listing(<<cA1>>, 0),
      Listing(<<cA1, cA2>>, 0),
      Listing(<<cB1, cA1>>, 0),
      Listing(<<cA2, cBad>>, 0),
      Listing(<<cA1, cB1>>, 1) }

ContributorListings ==
    { Listing(<<>>, 0),
      Listing(<<"alice">>, 0),
      Listing(<<"carol", "alice">>, 0),
      Listing(<<"carol">>, 1) }

RepoEntry(name, owner) == [name |-> name, owner |-> owner]

OrgRepoListings ==
    { Listing(<<>>, 0),
      Listing(<<RepoEntry("r1", "Acme"), RepoEntry("r2", "Acme")>>, 0),
      Listing(<<RepoEntry("r1", "Acme")>>, 1) }

UserRepoListings ==
    { Listing(<<>>, 0),
      Listing(<<RepoEntry("r2", "ACME"), RepoEntry("r1", "Other")>>, 0),
      Listing(<<RepoEntry("r1", "acme"), RepoEntry("r2", "acme")>>, 0),
      Listing(<<RepoEntry("r1", "Acme")>>, 1) }

\* the answers of GET /repos/:org/:repo/commits/:sha
StatsFailure == [ok |-> FALSE, additions |-> 0, deletions |-> 0]

StatsResponses ==
    {StatsFailure} \cup
    { [ok |-> TRUE, additions |-> a, deletions |-> d] : a \in 0..MaxLines, d \in 0..MaxLines }

\* the explicit repository lists of the configuration
RepoLists == { <<>>, <<"r1">>, <<"r2">>, <<"r1", "r2">> }

VARIABLES
    \* ---- configuration of the tracker object
    orgName,            \* this.orgName
    repositories,       \* this.repositories: [isNull, list]
    \* ---- the origin
    origin,             \* [orgRepos, userRepos, contributors, commits]
    \* ---- MultiRepoTracker.aggregateStats
    pc,                 \* position in aggregateStats / main
    reposToTrack,
    allContributors,
    aggregatedStats,    \* the object, as a function of its keys
    aggKeys,            \* the keys of aggregatedStats in insertion order
    statsByRepo,
    completed,
    commits,            \* analyzeRepoCommits: the list being folded
    idx,
    devStats,
    devKeys,            \* the keys of devStats in insertion order
    mergeIdx,           \* position of the merge loop over Object.entries(stats)
    result,             \* what aggregateStats returned
    report,             \* what printAggregatedReport computed
    \* ---- GitHubDevTracker.analyzeCommits (all branches of one repository)
    ghOrigin,           \* [branches, commits]: the origin's listings
    ghPc,
    branches,
    branchIdx,          \* i of the loop over branches
    allCommits,         \* the Map of getCommitsInRange, in insertion order
    ghCommits,          \* analyzeCommits: the list being folded
    ghIdx,
    ghDevStats,
    ghDevKeys,
    \* ---- the dashboard server
    now,                \* Date.now(), in milliseconds
    cache,              \* the memory tier: key -> [data, timestamp]
    files,              \* the report files of the requested date, per period
    reqs,               \* the requests being handled
    gen,                \* generateMissingReports (startup)
    archive,            \* the other files of the report directories, per period
    clr,                \* GET /api/cache/clear-all being handled
    ureq,               \* GET /api/user/:username being handled
    \* ---- computations followed on their own
    win,                \* aggregateStats: the date range of one call
    sreq,               \* GET /api/report/single/:period being handled
    sfiles,             \* the single-repository report files, per period
    statsOf,            \* the origin's answer to the stats fetch of each sha
    board,              \* GET /api/leaderboard/:period being handled
    pager               \* one paginated read of the origin, request by request

aggVars == <<orgName, repositories, origin, pc, reposToTrack, allContributors,
             aggregatedStats, aggKeys, statsByRepo, completed, commits, idx,
             devStats, devKeys, mergeIdx, result, report>>

ghVars == <<ghOrigin, ghPc, branches, branchIdx, allCommits, ghCommits, ghIdx,
            ghDevStats, ghDevKeys>>

jobVars == <<gen, archive, clr, ureq>>

calcVars == <<win, sreq, sfiles, statsOf, board, pager>>

srvVars == <<now, cache, files, reqs, jobVars>>

vars == <<aggVars, ghVars, calcVars, srvVars>>


\* ------------------------------------------------------------------------
\* MultiRepoTracker: repository discovery
\* ------------------------------------------------------------------------
Names(entries) == [i \in DOMAIN entries |-> entries[i].name]

\* Method 1: the organization endpoint, page by page; ok = FALSE when a
\* request throws
RECURSIVE OrgRepoPages(_, _, _)
OrgRepoPages(listing, page, repos) ==
    IF listing.failAt = page
    THEN [ok |-> FALSE, repos |-> repos]
    ELSE LET pageRepos == PageOf(listing.items, page)
         IN  IF Len(pageRepos) = 0
             THEN [ok |-> TRUE, repos |-> repos]
             ELSE IF Len(pageRepos) < perPage
                  THEN [ok |-> TRUE, repos |-> repos \o Names(pageRepos)]
                  ELSE OrgRepoPages(listing, page + 1, repos \o Names(pageRepos))

\* mutant: the owner filter compares the names as written
RECURSIVE UserRepoPages_CaseSensitive(_, _, _, _)
UserRepoPages_CaseSensitive(listing, org, page, repos) ==
    IF listing.failAt = page
    THEN repos
    ELSE LET pageRepos == PageOf(listing.items, page)
             ownerMatches(r) == r.owner = org
             filteredRepos == IF org # "" THEN SelectSeq(pageRepos, ownerMatches)
                                          ELSE pageRepos
         IN  IF Len(pageRepos) = 0
             THEN repos
             ELSE IF Len(pageRepos) < perPage
                  THEN repos \o Names(filteredRepos)
                  ELSE UserRepoPages_CaseSensitive(listing, org, page + 1,
                                                   repos \o Names(filteredRepos))

\* Method 2: the user endpoint, filtered by owner (case-insensitive)
RECURSIVE UserRepoPages(_, _, _, _)
UserRepoPages(listing, org, page, repos) ==
    IF listing.failAt = page
    THEN repos
    ELSE LET pageRepos == PageOf(listing.items, page)
             ownerMatches(r) == toLowerCase(r.owner) = toLowerCase(org)
             filteredRepos == IF org # "" THEN SelectSeq(pageRepos, ownerMatches)
                                          ELSE pageRepos
         IN  IF Len(pageRepos) = 0
             THEN repos
             ELSE IF Len(pageRepos) < perPage
                  THEN repos \o Names(filteredRepos)
                  ELSE UserRepoPages(listing, org, page + 1, repos \o Names(filteredRepos))

\* mutant: the names of the organization pages stay in the array
ClearPartial_Keep(repos) == repos

\* repos.length = 0: the names collected by Method 1 are dropped
ClearPartial(repos) == <<>>

getAllRepositories(o, org) ==
    LET method1 == IF org # "" THEN OrgRepoPages(o.orgRepos, 1, <<>>)
                              ELSE [ok |-> FALSE, repos |-> <<>>]
    IN  IF org # "" /\ method1.ok /\ Len(method1.repos) > 0
        THEN method1.repos
        ELSE UserRepoPages(o.userRepos, org, 1, ClearPartial(method1.repos))

\* this.repositories || await this.getAllRepositories()
ReposToTrack(o, org, cfg) ==
    IF cfg.isNull THEN getAllRepositories(o, org) ELSE cfg.list

\* ------------------------------------------------------------------------
\* MultiRepoTracker: contributor roster
\* ------------------------------------------------------------------------
\* mutant: the page replaces the Set instead of being added to it
AddContributors_Overwrite(all, contributors) == contributors

\* contributors.forEach: add the logins not yet in the Set
RECURSIVE AddContributors(_, _)
AddContributors(all, contributors) ==
    IF contributors = <<>>
    THEN all
    ELSE AddContributors(IF Head(contributors) \in Range(all)
                         THEN all
                         ELSE Append(all, Head(contributors)),
                         Tail(contributors))

RECURSIVE ContributorPages(_, _, _)
ContributorPages(listing, page, all) ==
    IF listing.failAt = page
    THEN all
    ELSE LET contributors == PageOf(listing.items, page)
         IN  IF Len(contributors) = 0
             THEN all
             ELSE IF Len(contributors) < perPage
                  THEN AddContributors(all, contributors)
                  ELSE ContributorPages(listing, page + 1,
                                        AddContributors(all, contributors))

RECURSIVE ContributorsOfRepos(_, _, _)
ContributorsOfRepos(o, repos, all) ==
    IF repos = <<>>
    THEN all
    ELSE ContributorsOfRepos(o, Tail(repos),
                             ContributorPages(o.contributors[Head(repos)], 1, all))

getAllContributors(o, org, cfg) ==
    ContributorsOfRepos(o, ReposToTrack(o, org, cfg), <<>>)

\* ------------------------------------------------------------------------
\* MultiRepoTracker: commits of one repository
\* ------------------------------------------------------------------------
\* mutant: a failed request is treated like a served page
RECURSIVE CommitPages_IgnoreFailure(_, _, _)
CommitPages_IgnoreFailure(listing, page, acc) ==
    LET pageCommits == PageOf(listing.items, page)
    IN  IF Len(pageCommits) = 0
        THEN acc
        ELSE IF Len(pageCommits) < perPage
             THEN acc \o pageCommits
             ELSE CommitPages_IgnoreFailure(listing, page + 1, acc \o pageCommits)

RECURSIVE CommitPages(_, _, _)
CommitPages(listing, page, acc) ==
    IF listing.failAt = page
    THEN acc
    ELSE LET pageCommits == PageOf(listing.items, page)
         IN  IF Len(pageCommits) = 0
             THEN acc
             ELSE IF Len(pageCommits) < perPage
                  THEN acc \o pageCommits
                  ELSE CommitPages(listing, page + 1, acc \o pageCommits)

getCommitsInRange(o, repo) == CommitPages(o.commits[repo], 1, <<>>)

getCommitStats(response) ==
    IF response.ok
    THEN [additions |-> response.additions, deletions |-> response.deletions]
    ELSE [additions |-> 0, deletions |-> 0]

authorName(c) == IF c.name = "" THEN "Unknown" ELSE c.name

authorEmail(c) == IF c.email = "" THEN "unknown@email.com" ELSE c.email

authorId(c) == IF c.login # "" THEN c.login ELSE authorName(c)

\* mutant: netLines accumulates the additions only
FoldCommitInto_NetDrift(ds, c, stats) ==
    LET id == authorId(c)
        old == IF id \in DOMAIN ds
               THEN ds[id]
               ELSE [commits |-> 0, additions |-> 0, deletions |-> 0,
                     netLines |-> 0, commitShas |-> <<>>,
                     email |-> authorEmail(c), name |-> authorName(c)]
        new == [old EXCEPT !.commits = @ + 1,
                           !.additions = @ + stats.additions,
                           !.deletions = @ + stats.deletions,
                           !.netLines = @ + stats.additions,
                           !.commitShas = Append(@, c.sha)]
    IN  [k \in DOMAIN ds \cup {id} |-> IF k = id THEN new ELSE ds[k]]

\* one iteration of the loop of analyzeRepoCommits, after the stats fetch
FoldCommitInto(ds, c, stats) ==
    LET id == authorId(c)
        old == IF id \in DOMAIN ds
               THEN ds[id]
               ELSE [commits |-> 0, additions |-> 0, deletions |-> 0,
                     netLines |-> 0, commitShas |-> <<>>,
                     email |-> authorEmail(c), name |-> authorName(c)]
        new == [old EXCEPT !.commits = @ + 1,
                           !.additions = @ + stats.additions,
                           !.deletions = @ + stats.deletions,
                           !.netLines = @ + (stats.additions - stats.deletions),
                           !.commitShas = Append(@, c.sha)]
    IN  [k \in DOMAIN ds \cup {id} |-> IF k = id THEN new ELSE ds[k]]

\* ------------------------------------------------------------------------
\* MultiRepoTracker: cross-repository merge
\* ------------------------------------------------------------------------
ZeroStats(name, email) ==
    [commits |-> 0, additions |-> 0, deletions |-> 0, netLines |-> 0,
     repositories |-> <<>>, email |-> email, name |-> name]

\* "Initialize all contributors with 0 stats"
InitRoster(contributors) ==
    [c \in Range(contributors) |-> ZeroStats(c, "")]

\* mutant: the commit count is assigned instead of added
MergeDevInto_Overwrite(agg, dev, data, repo) ==
    LET old == IF dev \in DOMAIN agg THEN agg[dev]
                                     ELSE ZeroStats(data.name, data.email)
        new == [old EXCEPT !.commits = data.commits,
                           !.additions = @ + data.additions,
                           !.deletions = @ + data.deletions,
                           !.netLines = @ + data.netLines,
                           !.email = IF data.email # "" THEN data.email ELSE @,
                           !.name = IF data.name # "" THEN data.name ELSE @,
                           !.repositories = IF repo \in Range(@) THEN @
                                                                 ELSE Append(@, repo)]
    IN  [k \in DOMAIN agg \cup {dev} |-> IF k = dev THEN new ELSE agg[k]]

\* one iteration of the loop over Object.entries(stats)
MergeDevInto(agg, dev, data, repo) ==
    LET old == IF dev \in DOMAIN agg THEN agg[dev]
                                     ELSE ZeroStats(data.name, data.email)
        new == [old EXCEPT !.commits = @ + data.commits,
                           !.additions = @ + data.additions,
                           !.deletions = @ + data.deletions,
                           !.netLines = @ + data.netLines,
                           !.email = IF data.email # "" THEN data.email ELSE @,
                           !.name = IF data.name # "" THEN data.name ELSE @,
                           !.repositories = IF repo \in Range(@) THEN @
                                                                 ELSE Append(@, repo)]
    IN  [k \in DOMAIN agg \cup {dev} |-> IF k = dev THEN new ELSE agg[k]]


\* ------------------------------------------------------------------------
\* MultiRepoTracker: leaderboard and report
\* ------------------------------------------------------------------------
\* mutant: equal commit counts are not broken by net lines
compare_CommitsOnly(a, b) == b.commits - a.commits

\* the comparator handed to Array.prototype.sort
compare(a, b) ==
    IF b.commits # a.commits THEN b.commits - a.commits
                             ELSE b.netLines - a.netLines

\* Array.prototype.sort is stable: an entry goes behind the entries that do
\* not sort after it
RECURSIVE InsertSorted(_, _)
InsertSorted(sorted, e) ==
    IF sorted = <<>>
    THEN <<e>>
    ELSE IF compare(Head(sorted), e) <= 0
         THEN <<Head(sorted)>> \o InsertSorted(Tail(sorted), e)
         ELSE <<e>> \o sorted

RECURSIVE SortEntries(_)
SortEntries(entries) ==
    IF entries = <<>>
    THEN <<>>
    ELSE InsertSorted(SortEntries(SubSeq(entries, 1, Len(entries) - 1)),
                      entries[Len(entries)])

\* topN = 0 stands for null (both are falsy)
createLeaderboard(stats, keys, topN) ==
    LET leaderboard ==
            [i \in DOMAIN keys |->
                [username |-> keys[i],
                 name |-> stats[keys[i]].name,
                 commits |-> stats[keys[i]].commits,
                 additions |-> stats[keys[i]].additions,
                 deletions |-> stats[keys[i]].deletions,
                 netLines |-> stats[keys[i]].netLines,
                 repoCount |-> Len(stats[keys[i]].repositories),
                 repositories |-> stats[keys[i]].repositories]]
        sorted == SortEntries(leaderboard)
    IN  IF topN # 0 THEN SubSeq(sorted, 1, Min(topN, Len(sorted))) ELSE sorted

\* Object.values(stats).reduce((sum, data) => sum + f(data), 0)
RECURSIVE SumOver(_, _, _)
SumOver(stats, keys, field) ==
    IF keys = <<>>
    THEN 0
    ELSE stats[Head(keys)][field] + SumOver(stats, Tail(keys), field)

NoReport == [printed |-> FALSE, active |-> <<>>, inactive |-> <<>>,
             totalDevs |-> 0, totalCommits |-> 0, totalAdditions |-> 0,
             totalDeletions |-> 0, totalNet |-> 0]

IsActive(dev) == dev.commits > 0

\* mutant: only authors seen in some repository count as inactive
IsInactive_OnlyTouched(dev) == dev.commits = 0 /\ dev.repoCount > 0

IsInactive(dev) == dev.commits = 0

printAggregatedReport(stats, keys) ==
    IF Len(keys) = 0
    THEN NoReport
    ELSE LET leaderboard == createLeaderboard(stats, keys, 0)
             totalAdditions == SumOver(stats, keys, "additions")
             totalDeletions == SumOver(stats, keys, "deletions")
         IN  [printed |-> TRUE,
              active |-> SelectSeq(leaderboard, IsActive),
              inactive |-> SelectSeq(leaderboard, IsInactive),
              totalDevs |-> Len(keys),
              totalCommits |-> SumOver(stats, keys, "commits"),
              totalAdditions |-> totalAdditions,
              totalDeletions |-> totalDeletions,
              totalNet |-> totalAdditions - totalDeletions]

\* ------------------------------------------------------------------------
\* MultiRepoTracker.aggregateStats, step by step
\* ------------------------------------------------------------------------
NoResult == [returned |-> FALSE, aggregated |-> EmptyMap, keys |-> <<>>,
             byRepo |-> EmptyMap, allContributors |-> <<>>]

configVars == <<orgName, repositories, origin>>

\* the repository being processed by the loop
CurrentRepo == reposToTrack[completed]

\* "Get list of repositories to track"
ResolveScope ==
    /\ pc = "start"
    /\ reposToTrack' = ReposToTrack(origin, orgName, repositories)
    /\ IF Len(reposToTrack') = 0
       THEN /\ result' = [returned |-> TRUE, aggregated |-> EmptyMap, keys |-> <<>>,
                          byRepo |-> EmptyMap, allContributors |-> <<>>]
            /\ pc' = "done"
       ELSE /\ result' = result
            /\ pc' = "roster"
    /\ UNCHANGED <<srvVars, calcVars, ghVars, configVars, allContributors, aggregatedStats, aggKeys,
                   statsByRepo, completed, commits, idx, devStats, devKeys,
                   mergeIdx, report>>

\* "Get all contributors from all repositories" and zero-initialize them
ResolveRoster ==
    /\ pc = "roster"
    /\ allContributors' = getAllContributors(origin, orgName, repositories)
    /\ aggregatedStats' = InitRoster(allContributors')
    /\ aggKeys' = allContributors'
    /\ statsByRepo' = EmptyMap
    /\ completed' = 0
    /\ pc' = "loop"
    /\ UNCHANGED <<srvVars, calcVars, ghVars, configVars, reposToTrack, commits, idx, devStats, devKeys,
                   mergeIdx, result, report>>

\* next iteration of the loop over reposToTrack: analyzeRepoCommits starts
\* with getCommitsInRange and returns {} for an empty list
NextRepo ==
    /\ pc = "loop"
    /\ completed < Len(reposToTrack)
    /\ completed' = completed + 1
    /\ commits' = getCommitsInRange(origin, reposToTrack[completed'])
    /\ idx' = 0
    /\ devStats' = EmptyMap
    /\ devKeys' = <<>>
    /\ pc' = IF Len(commits') = 0 THEN "store" ELSE "fold"
    /\ UNCHANGED <<srvVars, calcVars, ghVars, configVars, reposToTrack, allContributors, aggregatedStats,
                   aggKeys, statsByRepo, mergeIdx, result, report>>

\* one commit of analyzeRepoCommits: fetch its stats and fold it
FoldCommit ==
    /\ pc = "fold"
    /\ idx < Len(commits)
    /\ commits[idx + 1].gitAuthor
    /\ \E response \in StatsResponses :
          devStats' = FoldCommitInto(devStats, commits[idx + 1], getCommitStats(response))
    /\ devKeys' = IF authorId(commits[idx + 1]) \in DOMAIN devStats
                  THEN devKeys
                  ELSE Append(devKeys, authorId(commits[idx + 1]))
    /\ idx' = idx + 1
    /\ pc' = IF idx' = Len(commits) THEN "store" ELSE "fold"
    /\ UNCHANGED <<srvVars, calcVars, ghVars, configVars, reposToTrack, allContributors, aggregatedStats,
                   aggKeys, statsByRepo, completed, commits, mergeIdx, result, report>>

\* commit.commit.author is null: author.name throws, analyzeRepoCommits
\* rejects and the catch of aggregateStats records an empty result
FoldThrows ==
    /\ pc = "fold"
    /\ idx < Len(commits)
    /\ ~commits[idx + 1].gitAuthor
    /\ statsByRepo' = [r \in DOMAIN statsByRepo \cup {CurrentRepo} |->
                          IF r = CurrentRepo THEN EmptyMap ELSE statsByRepo[r]]
    /\ pc' = "loop"
    /\ UNCHANGED <<srvVars, calcVars, ghVars, configVars, reposToTrack, allContributors, aggregatedStats,
                   aggKeys, completed, commits, idx, devStats, devKeys, mergeIdx,
                   result, report>>

\* "Store stats by repository"
StoreRepoStats ==
    /\ pc = "store"
    /\ statsByRepo' = [r \in DOMAIN statsByRepo \cup {CurrentRepo} |->
                          IF r = CurrentRepo THEN devStats ELSE statsByRepo[r]]
    /\ mergeIdx' = 0
    /\ pc' = "merge"
    /\ UNCHANGED <<srvVars, calcVars, ghVars, configVars, reposToTrack, allContributors, aggregatedStats,
                   aggKeys, completed, commits, idx, devStats, devKeys, result, report>>

\* "Aggregate stats by developer": one entry of Object.entries(stats)
MergeDev ==
    /\ pc = "merge"
    /\ mergeIdx < Len(devKeys)
    /\ LET dev == devKeys[mergeIdx + 1]
       IN  /\ aggregatedStats' = MergeDevInto(aggregatedStats, dev, devStats[dev], CurrentRepo)
           /\ aggKeys' = IF dev \in DOMAIN aggregatedStats THEN aggKeys
                                                           ELSE Append(aggKeys, dev)
    /\ mergeIdx' = mergeIdx + 1
    /\ UNCHANGED <<srvVars, calcVars, ghVars, configVars, pc, reposToTrack, allContributors, statsByRepo,
                   completed, commits, idx, devStats, devKeys, result, report>>

\* the merge loop is over: log the repository's totals, next repository
EndRepo ==
    /\ pc = "merge"
    /\ mergeIdx = Len(devKeys)
    /\ pc' = "loop"
    /\ UNCHANGED <<srvVars, calcVars, ghVars, configVars, reposToTrack, allContributors, aggregatedStats,
                   aggKeys, statsByRepo, completed, commits, idx, devStats,
                   devKeys, mergeIdx, result, report>>

\* return { aggregated, byRepo, allContributors }
ReturnStats ==
    /\ pc = "loop"
    /\ completed = Len(reposToTrack)
    /\ result' = [returned |-> TRUE, aggregated |-> aggregatedStats, keys |-> aggKeys,
                  byRepo |-> statsByRepo, allContributors |-> allContributors]
    /\ pc' = "done"
    /\ UNCHANGED <<srvVars, calcVars, ghVars, configVars, reposToTrack, allContributors, aggregatedStats,
                   aggKeys, statsByRepo, completed, commits, idx, devStats,
                   devKeys, mergeIdx, report>>

\* main: tracker.printAggregatedReport(options.period, aggregated, reportDate)
PrintReport ==
    /\ pc = "done"
    /\ report' = printAggregatedReport(result.aggregated, result.keys)
    /\ pc' = "printed"
    /\ UNCHANGED <<srvVars, calcVars, ghVars, configVars, reposToTrack, allContributors, aggregatedStats,
                   aggKeys, statsByRepo, completed, commits, idx, devStats,
                   devKeys, mergeIdx, result>>

NoListing == Listing(<<>>, 0)

\* ------------------------------------------------------------------------
\* Dashboard server: data
\* ------------------------------------------------------------------------
CACHE_DURATION == 5 * 60 * 1000

FILE_CACHE_DURATION == 60 * 60 * 1000

Minute == 60 * 1000

\* the periods a report exists for
Periods == {"daily", "weekly", "monthly"}

\* the :period parameter of the requests of the model
RequestedPeriods == {"daily", "weekly", "yearly"}

\* the date of the requests, as date.toISOString().split('T')[0]
DateStr == "2025-11-18"

\* concurrent requests
Reqs == {1, 2}

\* a report document: the period it is about and its generatedAt field
NoData == [period |-> "", generatedAt |-> 0]

ReportDoc(period, generatedAt) == [period |-> period, generatedAt |-> generatedAt]

NoFile == [exists |-> FALSE, mtimeMs |-> 0, readable |-> FALSE, doc |-> NoData]

ReportFile(period, mtimeMs, generatedAt, readable) ==
    [exists |-> TRUE, mtimeMs |-> mtimeMs, readable |-> readable,
     doc |-> IF readable THEN ReportDoc(period, generatedAt) ELSE NoData]

NoResponse == [status |-> 0, source |-> "none", body |-> NoData]

IdleRequest ==
    [pc |-> "idle", period |-> "", forceRefresh |-> FALSE,
     cacheKey |-> <<>>, foundAge |-> -1, statted |-> FALSE, computed |-> FALSE,
     response |-> NoResponse]

\* no server at work
\* const periods = ['daily', 'weekly', 'monthly']
PeriodOrder == <<"daily", "weekly", "monthly">>

\* generateMissingReports: checked = number of periods checked so far,
\* missing = missingReports, jobs = the state of each period's regeneration
GenIdle ==
    [pc |-> "idle", checked |-> 0, missing |-> <<>>, startTime |-> 0,
     jobs |-> [p \in Periods |-> "none"],
     generatedAt |-> [p \in Periods |-> 0]]

NoArchive == [p \in Periods |-> {}]

\* GET /api/cache/clear-all: period = index of the directory at work,
\* jsonFiles = the files of it still to delete; before = what the tiers held
\* when the request came in
ClrIdle ==
    [pc |-> "idle", memorySize |-> 0, filesDeleted |-> 0, period |-> 0,
     jsonFiles |-> <<>>, before |-> [memory |-> 0, files |-> 0],
     response |-> [status |-> 0, memoryEntriesRemoved |-> 0, filesDeleted |-> 0]]

\* a Date of the local calendar: day counts the days since 2024-01-01, ms the
\* milliseconds since midnight
DateOf(day, ms) == [day |-> day, ms |-> ms]

\* no date range computed
WinIdle ==
    [pc |-> "idle", period |-> "", date |-> DateOf(0, 0),
     startDate |-> DateOf(0, 0), endDate |-> DateOf(0, 0)]

\* GET /api/report/single/:period: no request
SingleIdle ==
    [pc |-> "idle", period |-> "", repo |-> "", forceRefresh |-> FALSE,
     cacheKey |-> <<>>, computed |-> FALSE,
     response |-> [status |-> 0, source |-> "none",
                   body |-> [period |-> "", generatedAt |-> 0]]]

\* GET /api/leaderboard/:period: no request
BoardIdle ==
    [pc |-> "idle", period |-> "", topN |-> 0, bottomN |-> 0, status |-> 0,
     leaderboard |-> <<>>, top |-> <<>>, bottom |-> <<>>]

\* no paginated read at work
PagerIdle ==
    [pc |-> "idle", kind |-> "", listing |-> [items |-> <<>>, failAt |-> 0],
     page |-> 1, requested |-> <<>>, received |-> <<>>, acc |-> <<>>]

CalcIdle ==
    /\ win = WinIdle
    /\ sreq = SingleIdle
    /\ sfiles = [p \in {"daily", "weekly", "monthly"} |->
                   [exists |-> FALSE, mtimeMs |-> 0, readable |-> FALSE,
                    doc |-> [period |-> "", generatedAt |-> 0]]]
    /\ statsOf = [sha \in {} |-> sha]
    /\ board = BoardIdle
    /\ pager = PagerIdle

\* GET /api/user/:username: found = userExistsAnywhere, data = the commits
\* of dailyData, weeklyData and monthlyData (-1: null)
UserIdle ==
    [pc |-> "idle", username |-> "", period |-> "", cacheKey |-> <<>>,
     found |-> FALSE, data |-> [p \in Periods |-> -1], computed |-> FALSE,
     response |-> [status |-> 0, source |-> "none",
                   body |-> [username |-> "", daily |-> 0, weekly |-> 0, monthly |-> 0]]]

\* no startup job, no clear-all and no user request at work
JobsIdle ==
    /\ gen = GenIdle
    /\ archive = NoArchive
    /\ clr = ClrIdle
    /\ ureq = UserIdle

SrvIdle ==
    /\ now = 0
    /\ cache = EmptyMap
    /\ files = [p \in Periods |-> NoFile]
    /\ reqs = [r \in Reqs |-> IdleRequest]
    /\ JobsIdle

\* no GitHubDevTracker at work
GhIdle ==
    /\ ghOrigin = [branches |-> NoListing, commits |-> EmptyMap]
    /\ ghPc = "idle"
    /\ branches = <<>>
    /\ branchIdx = 0
    /\ allCommits = <<>>
    /\ ghCommits = <<>>
    /\ ghIdx = 0
    /\ ghDevStats = EmptyMap
    /\ ghDevKeys = <<>>

\* a tracker constructed with an explicit repository list
InitExplicit ==
    /\ orgName = "Acme"
    /\ repositories \in {[isNull |-> FALSE, list |-> l] : l \in RepoLists}
    /\ origin \in [orgRepos : {NoListing}, userRepos : {NoListing},
                   contributors : [Repos -> ContributorListings],
                   commits : [Repos -> CommitListings]]
    /\ \A r \in Repos \ Range(repositories.list) :
          origin.contributors[r] = NoListing /\ origin.commits[r] = NoListing

\* a tracker constructed with repositories = null (auto-discovery)
InitDiscover ==
    /\ orgName \in {"Acme", ""}
    /\ repositories = [isNull |-> TRUE, list |-> <<>>]
    /\ origin \in [orgRepos : OrgRepoListings, userRepos : UserRepoListings,
                   contributors : [Repos -> {Listing(<<"alice">>, 0),
                                             Listing(<<"carol", "alice">>, 0)}],
                   commits : [Repos -> {NoListing, Listing(<<cA1>>, 0)}]]
    /\ orgName = "" => origin.orgRepos = NoListing

InitAgg ==
    /\ InitExplicit \/ InitDiscover
    /\ GhIdle
    /\ CalcIdle
    /\ SrvIdle
    /\ pc = "start"
    /\ reposToTrack = <<>>
    /\ allContributors = <<>>
    /\ aggregatedStats = EmptyMap
    /\ aggKeys = <<>>
    /\ statsByRepo = EmptyMap
    /\ completed = 0
    /\ commits = <<>>
    /\ idx = 0
    /\ devStats = EmptyMap
    /\ devKeys = <<>>
    /\ mergeIdx = 0
    /\ result = NoResult
    /\ report = NoReport

NextAgg ==
    \/ ResolveScope
    \/ ResolveRoster
    \/ NextRepo
    \/ FoldCommit
    \/ FoldThrows
    \/ StoreRepoStats
    \/ MergeDev
    \/ EndRepo
    \/ ReturnStats
    \/ PrintReport

SpecAgg == InitAgg /\ [][NextAgg]_vars


\* ------------------------------------------------------------------------
\* Properties of MultiRepoTracker.aggregateStats (checked under SpecAgg)
\* ------------------------------------------------------------------------
NetLinesMatch(rec) == rec.netLines = rec.additions - rec.deletions

AllNetLinesMatch(stats) == \A k \in DOMAIN stats : NetLinesMatch(stats[k])

\* C2: in every state reached while commits are folded into a
\* per-repository result and per-repository results are merged into the
\* aggregated map (after each fold step, after each merge step, and for the
\* zero-initialized roster records), every author record has
\* netLines = additions - deletions.
C2_NetLinesConsistent ==
    /\ AllNetLinesMatch(devStats)
    /\ AllNetLinesMatch(aggregatedStats)
    /\ \A r \in DOMAIN statsByRepo : AllNetLinesMatch(statsByRepo[r])
    /\ AllNetLinesMatch(result.aggregated)

\* an author merged from two repositories, with additions and deletions
C2_Witness ==
    /\ pc = "merge"
    /\ \E k \in DOMAIN aggregatedStats :
          /\ Len(aggregatedStats[k].repositories) = 2
          /\ aggregatedStats[k].additions > 0
          /\ aggregatedStats[k].deletions > aggregatedStats[k].additions

\* the numeric totals of an aggregated map
Totals(agg) ==
    [k \in DOMAIN agg |-> [commits |-> agg[k].commits,
                           additions |-> agg[k].additions,
                           deletions |-> agg[k].deletions,
                           netLines |-> agg[k].netLines]]

\* the keys of a per-repository result in some order
RECURSIVE KeySeq(_)
KeySeq(keys) ==
    IF keys = {} THEN <<>>
    ELSE LET k == CHOOSE x \in keys : TRUE
         IN  <<k>> \o KeySeq(keys \ {k})

\* the merge loop of aggregateStats over one per-repository result
RECURSIVE MergeRepoInto(_, _, _, _)
MergeRepoInto(agg, repo, stats, keys) ==
    IF keys = <<>> THEN agg
    ELSE MergeRepoInto(MergeDevInto(agg, Head(keys), stats[Head(keys)], repo),
                       repo, stats, Tail(keys))

\* the per-repository results byRepo merged in the order `order`
RECURSIVE MergeInOrder(_, _, _)
MergeInOrder(agg, order, byRepo) ==
    IF order = <<>> THEN agg
    ELSE MergeInOrder(MergeRepoInto(agg, Head(order), byRepo[Head(order)],
                                    KeySeq(DOMAIN byRepo[Head(order)])),
                      Tail(order), byRepo)

\* the orders in which the repositories of a list can be processed
Orders(list) ==
    { o \in [1..Len(list) -> Range(list)] : \A i, j \in 1..Len(list) : o[i] = o[j] => i = j }

\* C3: for the per-repository results of a run, every permutation of the
\* order in which the repositories are processed yields, for every author,
\* the same commits, additions, deletions and netLines as the run returned.
C3_OrderIndependentTotals ==
    (result.returned /\ Len(reposToTrack) > 0) =>
        \A order \in Orders(reposToTrack) :
            Totals(MergeInOrder(InitRoster(result.allContributors), order, result.byRepo))
                = Totals(result.aggregated)

\* a run over two repositories that both hold commits of one author, with
\* different per-repository commit counts
C3_Witness ==
    /\ result.returned
    /\ Len(reposToTrack) = 2
    /\ \E k \in DOMAIN result.aggregated :
          /\ k \in DOMAIN result.byRepo["r1"]
          /\ k \in DOMAIN result.byRepo["r2"]
          /\ result.byRepo["r1"][k].commits # result.byRepo["r2"][k].commits
          /\ result.aggregated[k].commits = 3

\* the logins on the pages the contributors listing returned
ListedLogins(listing) ==
    { listing.items[i] : i \in { j \in DOMAIN listing.items :
          \/ listing.failAt = 0
          \/ (j - 1) \div perPage + 1 < listing.failAt } }

\* C4: with a non-empty repository scope, every login returned by the
\* contributors listing of a repository in scope is a key of the returned
\* aggregated map, with commits >= 0, and a member of allContributors,
\* whether or not the login occurs in any per-repository result.
C4_RosterComplete ==
    (result.returned /\ Len(reposToTrack) > 0) =>
        \A r \in Range(reposToTrack) :
            \A login \in ListedLogins(origin.contributors[r]) :
                /\ login \in DOMAIN result.aggregated
                /\ result.aggregated[login].commits >= 0
                /\ login \in Range(result.allContributors)

\* a listed contributor that occurs in no per-repository result, next to one
\* that does, the roster coming from two repositories
C4_Witness ==
    /\ result.returned
    /\ Len(reposToTrack) = 2
    /\ "carol" \in ListedLogins(origin.contributors[reposToTrack[2]])
    /\ "carol" \notin ListedLogins(origin.contributors[reposToTrack[1]])
    /\ "carol" \in DOMAIN result.aggregated
    /\ \A r \in DOMAIN result.byRepo : "carol" \notin DOMAIN result.byRepo[r]
    /\ "alice" \in DOMAIN result.aggregated
    /\ result.aggregated["alice"].commits > 0

\* the commit-list call of repository r always fails
CommitListFails(r) == origin.commits[r].failAt = 1

Without(list, r) == LET keep(x) == x # r IN SelectSeq(list, keep)

\* C5: when the commit-list call of one repository in scope always fails,
\* aggregateStats still returns, byRepo holds an empty result for that
\* repository, and the aggregated totals equal those merged from the other
\* repositories alone.
C5_FailingRepoIsolated ==
    result.returned =>
        \A r \in Range(reposToTrack) :
            CommitListFails(r) =>
                /\ r \in DOMAIN result.byRepo
                /\ result.byRepo[r] = EmptyMap
                /\ Totals(result.aggregated) =
                       Totals(MergeInOrder(InitRoster(result.allContributors),
                                           Without(reposToTrack, r), result.byRepo))

\* a run that returned although the first repository's commit list failed,
\* with commits merged from the second one
C5_Witness ==
    /\ result.returned
    /\ Len(reposToTrack) = 2
    /\ CommitListFails(reposToTrack[1])
    /\ ~CommitListFails(reposToTrack[2])
    /\ result.byRepo[reposToTrack[2]] # EmptyMap
    /\ \E k \in DOMAIN result.aggregated : result.aggregated[k].commits = 2

Usernames(entries) == {entries[i].username : i \in DOMAIN entries}

\* roster member m has no commit in any per-repository result
NoCommitsOf(m) ==
    \A r \in DOMAIN result.byRepo :
        m \in DOMAIN result.byRepo[r] => result.byRepo[r][m].commits = 0

\* no repository in scope has a commit in the window
NoCommitsInWindow == \A r \in Range(reposToTrack) : origin.commits[r].items = <<>>

\* C10: the active (commits > 0) and inactive (commits = 0) entries of the
\* report are disjoint and together cover every key of the aggregated map;
\* inactive holds every roster member without commits in the window, also
\* those in no per-repository result; when no repository has a commit in the
\* window every roster member is inactive and all totals are zero.
C10_ActivityPartition ==
    pc = "printed" =>
        /\ report.printed =>
              /\ Usernames(report.active) \cap Usernames(report.inactive) = {}
              /\ Usernames(report.active) \cup Usernames(report.inactive)
                     = DOMAIN result.aggregated
              /\ Len(report.active) + Len(report.inactive)
                     = Cardinality(DOMAIN result.aggregated)
              /\ \A i \in DOMAIN report.active : report.active[i].commits > 0
              /\ \A i \in DOMAIN report.inactive : report.inactive[i].commits = 0
        /\ \A m \in Range(result.allContributors) :
              NoCommitsOf(m) => m \in Usernames(report.inactive)
        /\ NoCommitsInWindow =>
              /\ Range(result.allContributors) \subseteq Usernames(report.inactive)
              /\ report.active = <<>>
              /\ report.totalCommits = 0
              /\ report.totalAdditions = 0
              /\ report.totalDeletions = 0
              /\ report.totalNet = 0

\* a printed report with an active author and an inactive roster member that
\* is in no per-repository result
C10_Witness ==
    /\ pc = "printed"
    /\ report.printed
    /\ "alice" \in Usernames(report.active)
    /\ "carol" \in Usernames(report.inactive)
    /\ \A r \in DOMAIN result.byRepo : "carol" \notin DOMAIN result.byRepo[r]


\* ------------------------------------------------------------------------
\* GitHubDevTracker: commits of ALL branches of one repository
\* ------------------------------------------------------------------------
Branches == {"main", "feature", "dev"}

BranchListings ==
    { NoListing,
      Listing(<<"main">>, 0),
      Listing(<<"main", "feature">>, 0),
      Listing(<<"feature", "main", "dev">>, 0),
      Listing(<<"main", "dev">>, 1) }

BranchCommitListings ==
    { NoListing,
      Listing(<<cA1>>, 0),
      Listing(<<cA1, cA2>>, 0),
      Listing(<<cB1, cA1>>, 0),
      Listing(<<cA2, cA2>>, 0),
      Listing(<<cA2, cBad>>, 0),
      Listing(<<cA1, cB1>>, 1) }

\* the try block encloses the loop: a failed page ends the listing and the
\* branches of the earlier pages are returned
RECURSIVE BranchPages(_, _, _)
BranchPages(listing, page, acc) ==
    IF listing.failAt = page
    THEN acc
    ELSE LET pageBranches == PageOf(listing.items, page)
         IN  IF Len(pageBranches) = 0
             THEN acc
             ELSE IF Len(pageBranches) < perPage
                  THEN acc \o pageBranches
                  ELSE BranchPages(listing, page + 1, acc \o pageBranches)

getAllBranches(o) == BranchPages(o.branches, 1, <<>>)

RECURSIVE BranchCommitPages(_, _, _)
BranchCommitPages(listing, page, acc) ==
    IF listing.failAt = page
    THEN acc
    ELSE LET pageCommits == PageOf(listing.items, page)
         IN  IF Len(pageCommits) = 0
             THEN acc
             ELSE IF Len(pageCommits) < perPage
                  THEN acc \o pageCommits
                  ELSE BranchCommitPages(listing, page + 1, acc \o pageCommits)

getCommitsFromBranch(o, branchName) == BranchCommitPages(o.commits[branchName], 1, <<>>)

\* mutant: the commits of a branch are added without the sha test
AddBranchCommits_NoDedup(all, branchCommits) == all \o branchCommits

\* branchCommits.forEach: set the commit unless the Map has its sha
RECURSIVE AddBranchCommits(_, _)
AddBranchCommits(all, branchCommits) ==
    IF branchCommits = <<>>
    THEN all
    ELSE AddBranchCommits(IF \E i \in DOMAIN all : all[i].sha = Head(branchCommits).sha
                          THEN all
                          ELSE Append(all, Head(branchCommits)),
                          Tail(branchCommits))

ghGetCommitStats(response) ==
    IF response.ok
    THEN [additions |-> response.additions, deletions |-> response.deletions]
    ELSE [additions |-> 0, deletions |-> 0]

\* one iteration of the loop of analyzeCommits, after the stats fetch
ghFoldCommitInto(ds, c, stats) ==
    LET id == authorId(c)
        old == IF id \in DOMAIN ds
               THEN ds[id]
               ELSE [commits |-> 0, additions |-> 0, deletions |-> 0,
                     netLines |-> 0, commitShas |-> <<>>,
                     email |-> authorEmail(c), name |-> authorName(c)]
        new == [old EXCEPT !.commits = @ + 1,
                           !.additions = @ + stats.additions,
                           !.deletions = @ + stats.deletions,
                           !.netLines = @ + (stats.additions - stats.deletions),
                           !.commitShas = Append(@, c.sha)]
    IN  [k \in DOMAIN ds \cup {id} |-> IF k = id THEN new ELSE ds[k]]

\* getCommitsInRange: "Fetching all branches"; no branch, no commits, and
\* analyzeCommits returns {}
GhGetBranches ==
    /\ ghPc = "start"
    /\ branches' = getAllBranches(ghOrigin)
    /\ ghPc' = IF Len(branches') = 0 THEN "analyzed" ELSE "branches"
    /\ UNCHANGED <<srvVars, calcVars, aggVars, ghOrigin, branchIdx, allCommits, ghCommits, ghIdx,
                   ghDevStats, ghDevKeys>>

\* getCommitsInRange: one branch of the loop
GhFetchBranch ==
    /\ ghPc = "branches"
    /\ branchIdx < Len(branches)
    /\ allCommits' = AddBranchCommits(allCommits,
                                      getCommitsFromBranch(ghOrigin, branches[branchIdx + 1]))
    /\ branchIdx' = branchIdx + 1
    /\ UNCHANGED <<srvVars, calcVars, aggVars, ghOrigin, ghPc, branches, ghCommits, ghIdx, ghDevStats,
                   ghDevKeys>>

\* getCommitsInRange returns the unique commits; analyzeCommits returns {}
\* when there is none
GhUniqueCommits ==
    /\ ghPc = "branches"
    /\ branchIdx = Len(branches)
    /\ ghCommits' = allCommits
    /\ ghPc' = IF Len(allCommits) = 0 THEN "analyzed" ELSE "fold"
    /\ UNCHANGED <<srvVars, calcVars, aggVars, ghOrigin, branches, branchIdx, allCommits, ghIdx,
                   ghDevStats, ghDevKeys>>

\* one commit of analyzeCommits: fetch its stats and fold it
GhFoldCommit ==
    /\ ghPc = "fold"
    /\ ghIdx < Len(ghCommits)
    /\ ghCommits[ghIdx + 1].gitAuthor
    /\ \E response \in StatsResponses :
          ghDevStats' = ghFoldCommitInto(ghDevStats, ghCommits[ghIdx + 1],
                                         ghGetCommitStats(response))
    /\ ghDevKeys' = IF authorId(ghCommits[ghIdx + 1]) \in DOMAIN ghDevStats
                    THEN ghDevKeys
                    ELSE Append(ghDevKeys, authorId(ghCommits[ghIdx + 1]))
    /\ ghIdx' = ghIdx + 1
    /\ ghPc' = IF ghIdx' = Len(ghCommits) THEN "analyzed" ELSE "fold"
    /\ UNCHANGED <<srvVars, calcVars, aggVars, ghOrigin, branches, branchIdx, allCommits, ghCommits>>

\* commit.commit.author is null: author.name throws and analyzeCommits rejects
GhFoldThrows ==
    /\ ghPc = "fold"
    /\ ghIdx < Len(ghCommits)
    /\ ~ghCommits[ghIdx + 1].gitAuthor
    /\ ghPc' = "threw"
    /\ UNCHANGED <<srvVars, calcVars, aggVars, ghOrigin, branches, branchIdx, allCommits, ghCommits,
                   ghIdx, ghDevStats, ghDevKeys>>

\* no MultiRepoTracker at work
AggIdle ==
    /\ orgName = "Acme"
    /\ repositories = [isNull |-> FALSE, list |-> <<>>]
    /\ origin = [orgRepos |-> NoListing, userRepos |-> NoListing,
                 contributors |-> [r \in Repos |-> NoListing],
                 commits |-> [r \in Repos |-> NoListing]]
    /\ pc = "idle"
    /\ reposToTrack = <<>>
    /\ allContributors = <<>>
    /\ aggregatedStats = EmptyMap
    /\ aggKeys = <<>>
    /\ statsByRepo = EmptyMap
    /\ completed = 0
    /\ commits = <<>>
    /\ idx = 0
    /\ devStats = EmptyMap
    /\ devKeys = <<>>
    /\ mergeIdx = 0
    /\ result = NoResult
    /\ report = NoReport

InitGh ==
    /\ AggIdle
    /\ CalcIdle
    /\ SrvIdle
    /\ ghOrigin \in [branches : BranchListings, commits : [Branches -> BranchCommitListings]]
    /\ \A b \in Branches \ Range(ghOrigin.branches.items) : ghOrigin.commits[b] = NoListing
    /\ ghPc = "start"
    /\ branches = <<>>
    /\ branchIdx = 0
    /\ allCommits = <<>>
    /\ ghCommits = <<>>
    /\ ghIdx = 0
    /\ ghDevStats = EmptyMap
    /\ ghDevKeys = <<>>

NextGh ==
    \/ GhGetBranches
    \/ GhFetchBranch
    \/ GhUniqueCommits
    \/ GhFoldCommit
    \/ GhFoldThrows

SpecGh == InitGh /\ [][NextGh]_vars

\* ------------------------------------------------------------------------
\* Properties of GitHubDevTracker.analyzeCommits (checked under SpecGh)
\* ------------------------------------------------------------------------
\* the commits on the pages a commit listing served
ServedCommits(listing) ==
    { listing.items[i] : i \in { j \in DOMAIN listing.items :
          \/ listing.failAt = 0
          \/ (j - 1) \div perPage + 1 < listing.failAt } }

\* the commits returned for at least one branch in the window
ReturnedCommits == UNION { ServedCommits(ghOrigin.commits[b]) : b \in Range(branches) }

\* the branches a commit was returned for
BranchesOf(c) == { b \in Range(branches) : c \in ServedCommits(ghOrigin.commits[b]) }

\* how often sha was folded into the record of author a
IncrementsOf(a, sha) ==
    Cardinality({ i \in DOMAIN ghDevStats[a].commitShas : ghDevStats[a].commitShas[i] = sha })

\* C1: when analyzeCommits returns, each commit sha returned for N >= 1
\* branches has incremented the commit count of exactly one author (its
\* own) exactly once, so every author's commits equals the number of
\* distinct commits of that author over all branches.
C1_CountedOncePerSha ==
    ghPc = "analyzed" =>
        /\ \A c \in ReturnedCommits :
              /\ authorId(c) \in DOMAIN ghDevStats
              /\ IncrementsOf(authorId(c), c.sha) = 1
              /\ \A a \in DOMAIN ghDevStats \ {authorId(c)} : IncrementsOf(a, c.sha) = 0
        /\ \A a \in DOMAIN ghDevStats :
              /\ ghDevStats[a].commits = Len(ghDevStats[a].commitShas)
              /\ ghDevStats[a].commits =
                     Cardinality({ c.sha : c \in { x \in ReturnedCommits : authorId(x) = a } })

\* the scenario of the specification: c1 on main and feature, c2 on feature
\* only, both by alice, who ends with 2 commits
C1_Witness ==
    /\ ghPc = "analyzed"
    /\ BranchesOf(cA1) = {"main", "feature"}
    /\ BranchesOf(cA2) = {"feature"}
    /\ ghDevStats["alice"].commits = 2


\* ------------------------------------------------------------------------
\* Dashboard server: the two cache tiers
\* ------------------------------------------------------------------------
\* minutes of wall-clock time the model lets pass
MaxMinutes == 5

\* the advances of the clock between two steps
TickSteps == {1 * Minute, 4 * Minute}

\* Date.now() when the server starts to listen
StartTime == 120 * Minute

getCacheKey(type, period, date, repo) == <<type, period, date, repo>>

\* mutant: an entry of exactly CACHE_DURATION is still served
getFromCache_Inclusive(c, key, t) ==
    IF key \in DOMAIN c /\ t - c[key].timestamp <= CACHE_DURATION
    THEN [hit |-> TRUE, data |-> c[key].data, cache |-> c]
    ELSE [hit |-> FALSE, data |-> NoData, cache |-> [k \in DOMAIN c \ {key} |-> c[k]]]

\* returns the data (hit) or null, and the Map after the call
getFromCache(c, key, t) ==
    IF key \in DOMAIN c /\ t - c[key].timestamp < CACHE_DURATION
    THEN [hit |-> TRUE, data |-> c[key].data, cache |-> c]
    ELSE [hit |-> FALSE, data |-> NoData, cache |-> [k \in DOMAIN c \ {key} |-> c[k]]]

setCache(c, key, data, t) ==
    [k \in DOMAIN c \cup {key} |->
        IF k = key THEN [data |-> data, timestamp |-> t] ELSE c[k]]

\* mutant: the age is taken from the generatedAt field of the document
FileIsFresh_ByGeneratedAt(file, t) ==
    file.exists /\ t - file.doc.generatedAt < FILE_CACHE_DURATION

\* getReportFromFile, fs.stat and the age test: a missing file throws ENOENT
FileIsFresh(file, t) ==
    file.exists /\ t - file.mtimeMs < FILE_CACHE_DURATION

\* getReportFromFile, fs.readFile and JSON.parse: null when either throws
FileContent(file) ==
    IF file.exists /\ file.readable
    THEN [ok |-> TRUE, doc |-> file.doc]
    ELSE [ok |-> FALSE, doc |-> NoData]

\* mutant: a file hit is returned without setCache
RepopulateFromFile_Skip(c, key, fileData, t) == c

\* GET /api/report/multi/:period, file hit: setCache(cacheKey, fileData)
RepopulateFromFile(c, key, fileData, t) == setCache(c, key, fileData, t)

Respond(q, status, source, body) ==
    [q EXCEPT !.pc = "responded",
              !.response = [status |-> status, source |-> source, body |-> body]]

\* the age of the entry a lookup finds, -1 when there is none
AgeFound(c, key, t) == IF key \in DOMAIN c THEN t - c[key].timestamp ELSE -1

\* GET /api/report/multi/:period up to its first await
Receive(r, period, forceRefresh) ==
    /\ reqs[r].pc = "idle"
    /\ LET q == [reqs[r] EXCEPT !.period = period, !.forceRefresh = forceRefresh]
           cacheKey == getCacheKey("multi", period, DateStr, "")
           cached == getFromCache(cache, cacheKey, now)
       IN  IF period \notin Periods
           THEN /\ reqs' = [reqs EXCEPT ![r] = Respond(q, 400, "none", NoData)]
                /\ cache' = cache
           ELSE IF ~forceRefresh
                THEN /\ cache' = cached.cache
                     /\ reqs' = [reqs EXCEPT ![r] =
                           IF cached.hit
                           THEN Respond([q EXCEPT !.cacheKey = cacheKey,
                                                  !.foundAge = AgeFound(cache, cacheKey, now)],
                                        200, "memory", cached.data)
                           ELSE [q EXCEPT !.cacheKey = cacheKey,
                                          !.foundAge = AgeFound(cache, cacheKey, now),
                                          !.pc = "stat"]]
                ELSE /\ cache' = cache
                     /\ reqs' = [reqs EXCEPT ![r] =
                           [q EXCEPT !.cacheKey = cacheKey, !.pc = "compute",
                                     !.computed = TRUE]]
    /\ UNCHANGED <<aggVars, ghVars, calcVars, jobVars, now, files>>

\* getReportFromFile: fs.stat resolves; a missing or old file gives null and
\* the handler goes on to aggregateStats
StatFile(r) ==
    /\ reqs[r].pc = "stat"
    /\ reqs' = [reqs EXCEPT ![r] =
          IF FileIsFresh(files[reqs[r].period], now)
          THEN [@ EXCEPT !.statted = TRUE, !.pc = "read"]
          ELSE [@ EXCEPT !.statted = TRUE, !.pc = "compute", !.computed = TRUE]]
    /\ UNCHANGED <<aggVars, ghVars, calcVars, jobVars, now, cache, files>>

\* getReportFromFile: fs.readFile resolves; the handler serves the file data
\* or goes on to aggregateStats
ReadFile(r) ==
    /\ reqs[r].pc = "read"
    /\ LET content == FileContent(files[reqs[r].period])
       IN  IF content.ok
           THEN /\ cache' = RepopulateFromFile(cache, reqs[r].cacheKey, content.doc, now)
                /\ reqs' = [reqs EXCEPT ![r] = Respond(@, 200, "file", content.doc)]
           ELSE /\ cache' = cache
                /\ reqs' = [reqs EXCEPT ![r] =
                      [@ EXCEPT !.pc = "compute", !.computed = TRUE]]
    /\ UNCHANGED <<aggVars, ghVars, calcVars, jobVars, now, files>>

\* tracker.aggregateStats resolves: build the response, setCache, res.json
Complete(r) ==
    /\ reqs[r].pc = "compute"
    /\ LET response == ReportDoc(reqs[r].period, now)
       IN  /\ cache' = setCache(cache, reqs[r].cacheKey, response, now)
           /\ reqs' = [reqs EXCEPT ![r] = Respond(@, 200, "origin", response)]
    /\ UNCHANGED <<aggVars, ghVars, calcVars, jobVars, now, files>>

\* the response is out; the next request can come in
Finish(r) ==
    /\ reqs[r].pc = "responded"
    /\ reqs' = [reqs EXCEPT ![r] = IdleRequest]
    /\ UNCHANGED <<aggVars, ghVars, calcVars, jobVars, now, cache, files>>

\* GET /api/cache/clear
ClearMemory ==
    /\ cache # EmptyMap
    /\ cache' = EmptyMap
    /\ UNCHANGED <<aggVars, ghVars, calcVars, jobVars, now, files, reqs>>

\* time passes
Tick(d) ==
    /\ now + d <= StartTime + MaxMinutes * Minute
    /\ now' = now + d
    /\ UNCHANGED <<aggVars, ghVars, calcVars, jobVars, cache, files, reqs>>

\* the daily report file found on disk when the server starts to listen:
\* none, a fresh one, a copied one (new mtime, old generatedAt), one of 55
\* minutes, a touched one (old mtime, new generatedAt), an unreadable one;
\* the other periods have no file
InitialFiles(p) ==
    IF p # "daily" THEN {NoFile} ELSE
    { NoFile,
      ReportFile(p, StartTime, StartTime, TRUE),
      ReportFile(p, StartTime, StartTime - 120 * Minute, TRUE),
      ReportFile(p, StartTime - 55 * Minute, StartTime - 55 * Minute, TRUE),
      ReportFile(p, StartTime - 60 * Minute, StartTime, TRUE),
      ReportFile(p, StartTime, StartTime, FALSE) }

InitSrv ==
    /\ AggIdle
    /\ GhIdle
    /\ CalcIdle
    /\ now = StartTime
    /\ cache = EmptyMap
    /\ files \in [Periods -> UNION {InitialFiles(p) : p \in Periods}]
    /\ \A p \in Periods : files[p] \in InitialFiles(p)
    /\ reqs = [r \in Reqs |-> IdleRequest]
    /\ JobsIdle

NextSrv ==
    \/ \E r \in Reqs, period \in RequestedPeriods, forceRefresh \in BOOLEAN :
          Receive(r, period, forceRefresh)
    \/ \E r \in Reqs : StatFile(r)
    \/ \E r \in Reqs : ReadFile(r)
    \/ \E r \in Reqs : Complete(r)
    \/ \E r \in Reqs : Finish(r)
    \/ ClearMemory
    \/ \E d \in TickSteps : Tick(d)

SpecSrv == InitSrv /\ [][NextSrv]_vars


\* ------------------------------------------------------------------------
\* Properties of the cache tiers (checked under SpecSrv)
\* ------------------------------------------------------------------------
MultiKey(period) == <<"multi", period, DateStr, "">>

Ok(source, body) == [status |-> 200, source |-> source, body |-> body]

\* request r does a non-forced lookup of a valid period in this step
Looksup(r) ==
    /\ reqs[r].pc = "idle"
    /\ reqs'[r].pc # "idle"
    /\ ~reqs'[r].forceRefresh
    /\ reqs'[r].period \in Periods

\* the file of a period is there and readable, and its age is below one hour
SnapshotFresh(period) ==
    /\ files[period].exists
    /\ now - files[period].mtimeMs < 60 * 60 * 1000

SnapshotReadable(period) == files[period].exists /\ files[period].readable

\* C6: a lookup without forceRefresh returns a fresh memory entry without
\* reading the file tier or invoking aggregateStats; otherwise a fresh file
\* snapshot is returned, stored in the memory tier under the same key, and
\* aggregateStats is not invoked; aggregateStats is invoked only when both
\* tiers miss.
C6_TieredLookup ==
    [][\A r \in Reqs :
        /\ (Looksup(r) /\ MultiKey(reqs'[r].period) \in DOMAIN cache
              /\ now - cache[MultiKey(reqs'[r].period)].timestamp < 5 * 60 * 1000) =>
                /\ reqs'[r].pc = "responded"
                /\ reqs'[r].response = Ok("memory", cache[MultiKey(reqs'[r].period)].data)
                /\ ~reqs'[r].statted
                /\ ~reqs'[r].computed
        /\ (reqs[r].pc = "stat" /\ reqs'[r].pc # "stat" /\ SnapshotFresh(reqs[r].period)) =>
                /\ reqs'[r].pc = "read"
                /\ ~reqs'[r].computed
        /\ (reqs[r].pc = "read" /\ reqs'[r].pc # "read" /\ SnapshotReadable(reqs[r].period)) =>
                /\ reqs'[r].pc = "responded"
                /\ reqs'[r].response = Ok("file", files[reqs[r].period].doc)
                /\ ~reqs'[r].computed
                /\ MultiKey(reqs[r].period) \in DOMAIN cache'
                /\ cache'[MultiKey(reqs[r].period)] =
                       [data |-> files[reqs[r].period].doc, timestamp |-> now]
        /\ (~reqs[r].computed /\ reqs'[r].computed /\ ~reqs'[r].forceRefresh) =>
                \/ reqs[r].pc = "stat" /\ ~SnapshotFresh(reqs[r].period)
                \/ reqs[r].pc = "read" /\ ~SnapshotReadable(reqs[r].period)
      ]_vars

\* one request was answered from the memory tier, another one from a file
\* that repopulated the memory tier, without any computation
C6_Witness ==
    /\ reqs[1].pc = "responded"
    /\ reqs[1].response.source = "file"
    /\ ~reqs[1].computed
    /\ reqs[2].pc = "responded"
    /\ reqs[2].response.source = "memory"
    /\ reqs[2].response.body = reqs[1].response.body
    /\ ~reqs[2].statted

\* C7 (as claimed): whenever a report is recomputed from origin and the
\* recomputation succeeds, on return both the memory entry of the key and the
\* file snapshot of (period, date) hold the newly computed report.
C7_WriteThroughBothTiers ==
    [][\A r \in Reqs :
        (reqs[r].pc = "compute" /\ reqs'[r].pc = "responded") =>
            /\ reqs[r].cacheKey \in DOMAIN cache'
            /\ cache'[reqs[r].cacheKey].data = reqs'[r].response.body
            /\ files'[reqs[r].period].exists
            /\ files'[reqs[r].period].doc = reqs'[r].response.body
      ]_vars

\* C8: an entry written at T0 carries the timestamp T0; a lookup of its key
\* at t returns its data and leaves it in place when t - T0 < 5 minutes, and
\* returns null and leaves the key absent when t - T0 >= 5 minutes; the
\* entries of the other keys are not touched by the lookup.
C8_MemoryTtl ==
    [][/\ \A k \in DOMAIN cache' :
              (k \notin DOMAIN cache \/ cache'[k] # cache[k]) => cache'[k].timestamp = now
       /\ \A r \in Reqs : Looksup(r) =>
              LET key == MultiKey(reqs'[r].period)
              IN  /\ \A k \in DOMAIN cache \ {key} : k \in DOMAIN cache' /\ cache'[k] = cache[k]
                  /\ IF key \in DOMAIN cache /\ now - cache[key].timestamp < 5 * 60 * 1000
                     THEN /\ reqs'[r].response = Ok("memory", cache[key].data)
                          /\ cache' = cache
                     ELSE /\ reqs'[r].response.source # "memory"
                          /\ reqs'[r].pc = "stat"
                          /\ key \notin DOMAIN cache'
      ]_vars

\* one lookup was served an entry of 4 minutes, and another one found the
\* entry of its key 5 minutes old and left the key absent
C8_Witness ==
    \E r1, r2 \in Reqs :
        /\ reqs[r1].pc = "responded"
        /\ reqs[r1].response.source = "memory"
        /\ reqs[r1].foundAge = 4 * 60 * 1000
        /\ reqs[r2].pc = "stat"
        /\ reqs[r2].foundAge = 5 * 60 * 1000
        /\ reqs[r2].cacheKey \notin DOMAIN cache

\* C9: the file tier serves a snapshot if and only if the file is there (and
\* can be read) and now - mtime < 1 hour; the generatedAt field of the
\* document does not enter the decision, and a missing or unreadable file is
\* a miss (the handler goes on to compute), not an error.
C9_FileTtlByMtime ==
    [][\A r \in Reqs :
        /\ (reqs[r].pc = "stat" /\ reqs'[r].pc # "stat") =>
              /\ reqs'[r].pc = IF SnapshotFresh(reqs[r].period) THEN "read" ELSE "compute"
        /\ (reqs[r].pc = "read" /\ reqs'[r].pc # "read") =>
              IF SnapshotReadable(reqs[r].period)
              THEN reqs'[r].response = Ok("file", files[reqs[r].period].doc)
              ELSE reqs'[r].pc = "compute"
        /\ (reqs'[r].pc = "responded" /\ reqs'[r].response.source = "file") =>
              reqs[r].pc \in {"read", "responded"}
        /\ reqs'[r].response.status \in {0, 200, 400}
      ]_vars

\* a snapshot modified less than an hour ago was served although its
\* generatedAt field is more than an hour old
C9_Witness ==
    \E r \in Reqs :
        /\ reqs[r].pc = "responded"
        /\ reqs[r].response.source = "file"
        /\ reqs[r].response.body = files[reqs[r].period].doc
        /\ now - files[reqs[r].period].mtimeMs < 60 * 60 * 1000
        /\ now - reqs[r].response.body.generatedAt >= 60 * 60 * 1000

\* ------------------------------------------------------------------------
\* Leaderboard order
\* ------------------------------------------------------------------------
\* the entry createLeaderboard builds for one key of stats
LeaderboardEntry(stats, dev) ==
    [username |-> dev,
     name |-> stats[dev].name,
     commits |-> stats[dev].commits,
     additions |-> stats[dev].additions,
     deletions |-> stats[dev].deletions,
     netLines |-> stats[dev].netLines,
     repoCount |-> Len(stats[dev].repositories),
     repositories |-> stats[dev].repositories]

IsPermutationOfEntries(lb, stats, keys) ==
    /\ Len(lb) = Len(keys)
    /\ \A k \in Range(keys) :
          Cardinality({i \in DOMAIN lb : lb[i] = LeaderboardEntry(stats, k)}) = 1

InLeaderboardOrder(lb) ==
    \A i, j \in DOMAIN lb :
        i < j => \/ lb[i].commits > lb[j].commits
                 \/ (lb[i].commits = lb[j].commits /\ lb[i].netLines >= lb[j].netLines)

FillerRepos(n, owner) == [i \in 1..n |-> RepoEntry("f" \o ToString(i), owner)]

FiveUserRepos ==
    << RepoEntry("r1", "Acme"), RepoEntry("r2", "Other"), RepoEntry("r3", "acme"),
       RepoEntry("r4", "Other"), RepoEntry("r5", "ACME") >>

\* the entries of s at the positions in S, in the order of s
RECURSIVE Pick(_, _, _)
Pick(s, S, i) ==
    IF i > Len(s)
    THEN <<>>
    ELSE (IF i \in S THEN <<s[i]>> ELSE <<>>) \o Pick(s, S, i + 1)

\* answers of GET /user/repos
DiscoverUserListings ==
    { Listing(Pick(FiveUserRepos, S, 1), f) : S \in SUBSET (1..5), f \in {0, 1} }
    \cup { Listing(FillerRepos(perPage, "Other") \o FiveUserRepos, f) : f \in {0, 2} }
    \cup { Listing(FillerRepos(perPage, "acme"), 0) }

\* answers of GET /orgs/:org/repos
DiscoverOrgListings ==
    { NoListing,
      Listing(<<RepoEntry("r1", "Acme"), RepoEntry("r2", "Acme")>>, 0),
      Listing(<<RepoEntry("r1", "Acme")>>, 1),
      Listing(FillerRepos(perPage, "Acme") \o <<RepoEntry("r1", "Acme")>>, 2),
      Listing(FillerRepos(perPage, "Acme"), 0) }

discoverUnchanged ==
    <<srvVars, calcVars, ghVars, configVars, allContributors, aggregatedStats, aggKeys,
      statsByRepo, completed, commits, idx, devStats, devKeys, mergeIdx, result,
      report>>

\* Method 1: the organization endpoint; its repositories are returned when
\* it answered with at least one, otherwise the array keeps what the pages
\* read so far pushed and Method 2 follows
OrgEndpoint ==
    /\ pc = "discover"
    /\ orgName # ""
    /\ LET method1 == OrgRepoPages(origin.orgRepos, 1, <<>>)
       IN  /\ reposToTrack' = method1.repos
           /\ pc' = IF method1.ok /\ Len(method1.repos) > 0 THEN "discovered"
                                                            ELSE "fallback"
    /\ UNCHANGED discoverUnchanged

\* Method 2: the array is cleared, then the user endpoint is read and
\* filtered by owner
UserEndpoint ==
    /\ pc = "fallback" \/ (pc = "discover" /\ orgName = "")
    /\ reposToTrack' = UserRepoPages(origin.userRepos, orgName, 1, ClearPartial(reposToTrack))
    /\ pc' = "discovered"
    /\ UNCHANGED discoverUnchanged

\* a tracker constructed with repositories = null, about to discover them
InitRepos ==
    /\ orgName \in {"Acme", ""}
    /\ repositories = [isNull |-> TRUE, list |-> <<>>]
    /\ origin \in [orgRepos : DiscoverOrgListings, userRepos : DiscoverUserListings,
                   contributors : {[r \in Repos |-> NoListing]},
                   commits : {[r \in Repos |-> NoListing]}]
    /\ orgName = "" => origin.orgRepos = NoListing
    /\ GhIdle
    /\ CalcIdle
    /\ SrvIdle
    /\ pc = "discover"
    /\ reposToTrack = <<>>
    /\ allContributors = <<>>
    /\ aggregatedStats = EmptyMap
    /\ aggKeys = <<>>
    /\ statsByRepo = EmptyMap
    /\ completed = 0
    /\ commits = <<>>
    /\ idx = 0
    /\ devStats = EmptyMap
    /\ devKeys = <<>>
    /\ mergeIdx = 0
    /\ result = NoResult
    /\ report = NoReport

NextRepos ==
    \/ OrgEndpoint
    \/ UserEndpoint

SpecRepos == InitRepos /\ [][NextRepos]_vars

\* the request for some page of the listing throws
ListingFails(listing) ==
    /\ listing.failAt >= 1
    /\ listing.failAt <= Len(listing.items) \div perPage + 1

\* the entries whose owner login equals org, ignoring case
OwnedBy(items, org) ==
    LET matches(r) == toLowerCase(r.owner) = toLowerCase(org)
    IN  SelectSeq(items, matches)

CredentialRejected ==
    IF repositories.isNull
    THEN /\ origin.userRepos.failAt = 1
         /\ orgName # "" => origin.orgRepos.failAt = 1
    ELSE /\ Len(repositories.list) > 0
         /\ \A r \in Range(repositories.list) :
               /\ origin.contributors[r].failAt = 1
               /\ origin.commits[r].failAt = 1

\* C13: when the origin rejects the credential on the calls of a run,
\* aggregateStats does not return normally (with empty or zero-filled
\* results); it ends in a fatal error.
C13_AuthFailureIsFatal ==
    CredentialRejected => ~result.returned

\* ------------------------------------------------------------------------
\* Concurrent computations of one report
\* ------------------------------------------------------------------------
\* the requests whose handler is waiting for tracker.aggregateStats
Computing(key) == {r \in Reqs : reqs[r].pc = "compute" /\ reqs[r].cacheKey = key}

\* C14: for every cache key at most one aggregateStats computation is in
\* flight at any time.
C14_SingleFlight ==
    \A period \in Periods : Cardinality(Computing(MultiKey(period))) <= 1

\* ------------------------------------------------------------------------
\* generateMissingReports: the regeneration at startup
\* ------------------------------------------------------------------------
\* Math.round((Date.now() - stats.mtimeMs) / 60000)
AgeMinutes(file, t) == ((t - file.mtimeMs) + 30000) \div 60000

\* fs.stat throws for a missing file; an existing one is kept when its
\* rounded age is below 60 minutes
NeedsReport(file, t) == ~file.exists \/ AgeMinutes(file, t) >= 60

\* mutant: every period's report is written to the first period's path
WriteReport_SharedPath(fs, period, t, generatedAt) ==
    [fs EXCEPT ![PeriodOrder[1]] = ReportFile(period, t, generatedAt, TRUE)]

\* fs.writeFile(filePath, JSON.stringify(reportData)): the path is made of
\* the period and the date
WriteReport(fs, period, t, generatedAt) ==
    [fs EXCEPT ![period] = ReportFile(period, t, generatedAt, TRUE)]

startUnchanged == <<aggVars, ghVars, calcVars, now, cache, reqs, archive, clr, ureq>>

\* the loop over the periods, one fs.stat per step; after the last one
\* either return or start every regeneration (Promise.all over map)
GenCheck ==
    /\ gen.pc = "check"
    /\ LET period == PeriodOrder[gen.checked + 1]
           missing == IF NeedsReport(files[period], now)
                      THEN Append(gen.missing, period)
                      ELSE gen.missing
           checked == gen.checked + 1
           g == [gen EXCEPT !.checked = checked, !.missing = missing]
       IN  gen' = IF checked < Len(PeriodOrder)
                  THEN g
                  ELSE IF missing = <<>>
                       THEN [g EXCEPT !.pc = "done"]
                       ELSE [g EXCEPT !.pc = "generate",
                                      !.startTime = now,
                                      !.jobs = [p \in Periods |->
                                                  IF p \in Range(missing) THEN "compute"
                                                                          ELSE "none"]]
    /\ UNCHANGED <<startUnchanged, files>>

\* tracker.aggregateStats(period, date) settles
GenComputed(p, ok) ==
    /\ gen.pc = "generate"
    /\ gen.jobs[p] = "compute"
    /\ gen' = [gen EXCEPT !.jobs[p] = IF ok THEN "mkdir" ELSE "failed"]
    /\ UNCHANGED <<startUnchanged, files>>

\* fs.mkdir settles; reportData is built with generatedAt = new Date()
GenMkdir(p, ok) ==
    /\ gen.pc = "generate"
    /\ gen.jobs[p] = "mkdir"
    /\ gen' = IF ok THEN [gen EXCEPT !.jobs[p] = "write", !.generatedAt[p] = now]
                    ELSE [gen EXCEPT !.jobs[p] = "failed"]
    /\ UNCHANGED <<startUnchanged, files>>

\* fs.writeFile settles
GenWrite(p, ok) ==
    /\ gen.pc = "generate"
    /\ gen.jobs[p] = "write"
    /\ gen' = [gen EXCEPT !.jobs[p] = IF ok THEN "saved" ELSE "failed"]
    /\ files' = IF ok THEN WriteReport(files, p, now, gen.generatedAt[p]) ELSE files
    /\ UNCHANGED startUnchanged

\* Promise.all resolves: every callback caught its own error
GenSettle ==
    /\ gen.pc = "generate"
    /\ \A p \in Range(gen.missing) : gen.jobs[p] \in {"saved", "failed"}
    /\ gen' = [gen EXCEPT !.pc = "done"]
    /\ UNCHANGED <<startUnchanged, files>>

\* the report file of a period when the process starts: none, ten minutes
\* old, 57 minutes old, 59 minutes 40 seconds old, 90 minutes old
StartupFiles(p) ==
    { NoFile,
      ReportFile(p, StartTime - 10 * Minute, StartTime - 10 * Minute, TRUE),
      ReportFile(p, StartTime - 57 * Minute, StartTime - 57 * Minute, TRUE),
      ReportFile(p, StartTime - 59 * Minute - 40000, StartTime - 59 * Minute - 40000, TRUE),
      ReportFile(p, StartTime - 90 * Minute, StartTime - 90 * Minute, TRUE) }

\* the advances of Date.now() during startup
StartTickSteps == {4 * Minute}

InitStart ==
    /\ AggIdle
    /\ GhIdle
    /\ CalcIdle
    /\ now = StartTime
    /\ cache = EmptyMap
    /\ files \in [Periods -> UNION {StartupFiles(p) : p \in Periods}]
    /\ \A p \in Periods : files[p] \in StartupFiles(p)
    /\ reqs = [r \in Reqs |-> IdleRequest]
    /\ gen = [GenIdle EXCEPT !.pc = "check"]
    /\ archive = NoArchive
    /\ clr = ClrIdle
    /\ ureq = UserIdle

NextStart ==
    \/ GenCheck
    \/ \E p \in Periods, ok \in BOOLEAN : GenComputed(p, ok)
    \/ \E p \in Periods, ok \in BOOLEAN : GenMkdir(p, ok)
    \/ \E p \in Periods, ok \in BOOLEAN : GenWrite(p, ok)
    \/ GenSettle
    \/ \E d \in StartTickSteps : Tick(d)

SpecStart == InitStart /\ [][NextStart]_vars

\* C15: when generateMissingReports completes, every scheduled period whose
\* own regeneration did not fail has a newly written snapshot file of that
\* period, whatever happened to the other periods' regenerations; a failed
\* regeneration does not keep the others from being awaited.
C15_StartupReconciliation ==
    /\ gen.pc = "done" =>
          \A p \in Range(gen.missing) :
              /\ gen.jobs[p] \in {"saved", "failed"}
              /\ gen.jobs[p] = "saved" =>
                    /\ files[p].exists
                    /\ files[p].readable
                    /\ files[p].doc.period = p
                    /\ files[p].mtimeMs >= gen.startTime
    /\ (gen.pc = "generate"
          /\ \A p \in Range(gen.missing) : gen.jobs[p] \in {"saved", "failed"})
       => ENABLED GenSettle

\* all three periods were scheduled, the first one failed and the other two
\* were saved, the third before the second
C15_Witness ==
    /\ gen.pc = "done"
    /\ gen.missing = PeriodOrder
    /\ gen.jobs["daily"] = "failed"
    /\ gen.jobs["weekly"] = "saved"
    /\ gen.jobs["monthly"] = "saved"
    /\ files["monthly"].mtimeMs < files["weekly"].mtimeMs

\* ------------------------------------------------------------------------
\* GET /api/cache/clear-all
\* ------------------------------------------------------------------------
\* file names of a report directory: the report of the requested date, the
\* report of the day before, and a file that is no report
TodayReport == [name |-> "multi_repo_report_2025-11-18", ext |-> ".json"]

OldReport == [name |-> "multi_repo_report_2025-11-17", ext |-> ".json"]

Notes == [name |-> "notes", ext |-> ".txt"]

\* f.endsWith('.json')
IsJson(f) == f.ext = ".json"

\* fs.readdir: the names in the directory of a period, in name order
Readdir(fs, arch, period) ==
    (IF OldReport \in arch[period] THEN <<OldReport>> ELSE <<>>)
    \o (IF fs[period].exists THEN <<TodayReport>> ELSE <<>>)
    \o (IF Notes \in arch[period] THEN <<Notes>> ELSE <<>>)

\* the handler after the loop body of one period: the next period, or the
\* response when it was the last one
AfterPeriod(c) ==
    IF c.period < Len(PeriodOrder)
    THEN [c EXCEPT !.pc = "readdir", !.period = @ + 1, !.jsonFiles = <<>>]
    ELSE [c EXCEPT !.pc = "responded", !.jsonFiles = <<>>,
                   !.response = [status |-> 200,
                                 memoryEntriesRemoved |-> c.memorySize,
                                 filesDeleted |-> c.filesDeleted]]

\* the number of report files in the three directories
SnapshotFiles(fs, arch) ==
    Cardinality({p \in Periods : fs[p].exists})
    + Cardinality({p \in Periods : OldReport \in arch[p]})

\* the handler up to its first await: cache.size, cache.clear()
ClearAllReceive ==
    /\ clr.pc = "idle"
    /\ clr' = [ClrIdle EXCEPT !.pc = "readdir", !.period = 1,
                              !.memorySize = Cardinality(DOMAIN cache),
                              !.before = [memory |-> Cardinality(DOMAIN cache),
                                          files |-> SnapshotFiles(files, archive)]]
    /\ cache' = EmptyMap
    /\ UNCHANGED <<aggVars, ghVars, calcVars, now, files, reqs, gen, archive, ureq>>

\* fs.readdir resolves (with no name when the directory does not exist)
ClearReaddir ==
    /\ clr.pc = "readdir"
    /\ LET jsonFiles == SelectSeq(Readdir(files, archive, PeriodOrder[clr.period]), IsJson)
       IN  clr' = IF jsonFiles = <<>>
                  THEN AfterPeriod(clr)
                  ELSE [clr EXCEPT !.pc = "unlink", !.jsonFiles = jsonFiles]
    /\ UNCHANGED <<aggVars, ghVars, calcVars, now, cache, files, reqs, gen, archive, ureq>>

\* fs.unlink of the next file settles: deleted and counted, or the error is
\* caught by the catch around the directory's loop
ClearUnlink(ok) ==
    /\ clr.pc = "unlink"
    /\ LET period == PeriodOrder[clr.period]
           file == Head(clr.jsonFiles)
           rest == Tail(clr.jsonFiles)
           counted == [clr EXCEPT !.filesDeleted = @ + 1, !.jsonFiles = rest]
       IN  IF ok
           THEN /\ files' = IF file = TodayReport THEN [files EXCEPT ![period] = NoFile]
                                                  ELSE files
                /\ archive' = [archive EXCEPT ![period] = @ \ {file}]
                /\ clr' = IF rest = <<>> THEN AfterPeriod(counted) ELSE counted
           ELSE /\ files' = files
                /\ archive' = archive
                /\ clr' = AfterPeriod(clr)
    /\ UNCHANGED <<aggVars, ghVars, calcVars, now, cache, reqs, gen, ureq>>

\* the memory tier when the clear-all request comes in
ClearCaches ==
    { EmptyMap,
      setCache(EmptyMap, getCacheKey("multi", "daily", DateStr, ""),
               ReportDoc("daily", StartTime), StartTime),
      setCache(setCache(EmptyMap, getCacheKey("multi", "daily", DateStr, ""),
                        ReportDoc("daily", StartTime), StartTime),
               getCacheKey("multi", "weekly", DateStr, ""),
               ReportDoc("weekly", StartTime), StartTime) }

ClearFiles(p) == {NoFile, ReportFile(p, StartTime, StartTime, TRUE)}

ClearArchives(p) ==
    IF p = "daily" THEN {{}, {OldReport}, {OldReport, Notes}} ELSE {{}, {OldReport}}

InitClear ==
    /\ AggIdle
    /\ GhIdle
    /\ CalcIdle
    /\ now = StartTime
    /\ cache \in ClearCaches
    /\ files \in [Periods -> UNION {ClearFiles(p) : p \in Periods}]
    /\ \A p \in Periods : files[p] \in ClearFiles(p)
    /\ archive \in [Periods -> UNION {ClearArchives(p) : p \in Periods}]
    /\ \A p \in Periods : archive[p] \in ClearArchives(p)
    /\ reqs = [r \in Reqs |-> IdleRequest]
    /\ gen = GenIdle
    /\ clr = ClrIdle
    /\ ureq = UserIdle

\* clear-all next to forced report requests
NextClear ==
    \/ ClearAllReceive
    \/ ClearReaddir
    \/ \E ok \in BOOLEAN : ClearUnlink(ok)
    \/ \E period \in Periods : Receive(1, period, TRUE)
    \/ Complete(1)
    \/ Finish(1)

SpecClear == InitClear /\ [][NextClear]_vars

NoSnapshotLeft ==
    /\ \A p \in Periods : ~files[p].exists
    /\ \A p \in Periods : \A f \in archive[p] : ~IsJson(f)

\* C16: when clear-all returns success, the memory tier is empty, no report
\* file remains in any of the three period directories, memoryEntriesRemoved
\* is the number of memory entries present before the call and filesDeleted
\* the number of report files present before the call.
C16_ClearAll ==
    [][(clr.pc # "responded" /\ clr'.pc = "responded" /\ clr'.response.status = 200) =>
          /\ cache' = EmptyMap
          /\ NoSnapshotLeft'
          /\ clr'.response.memoryEntriesRemoved = clr.before.memory
          /\ clr'.response.filesDeleted = clr.before.files]_vars

\* ------------------------------------------------------------------------
\* MultiRepoTracker.aggregateStats over listings of several pages, one
\* repository per step
\* ------------------------------------------------------------------------
\* commits that fill whole pages of a listing
FillerCommits(n) ==
    [i \in 1..n |-> Commit("c" \o ToString(i), "dave", "Dave", "dave@x.io")]

\* answers of GET /repos/:org/:repo/commits for the first repository: one
\* full page; the same commit last on page 1 and first on page 2; two pages,
\* served or failing on page 1 or 2; three pages, served or failing on
\* page 3; a short list
PagedCommitListings ==
    { Listing(FillerCommits(perPage - 1) \o <<cA1>>, 0),
      Listing(FillerCommits(perPage - 1) \o <<cA1, cA1>>, 0),
      Listing(FillerCommits(perPage) \o <<cA1, cB1>>, 0),
      Listing(FillerCommits(perPage) \o <<cA1, cB1>>, 1),
      Listing(FillerCommits(perPage) \o <<cA1, cB1>>, 2),
      Listing(FillerCommits(2 * perPage) \o <<cA2>>, 0),
      Listing(FillerCommits(2 * perPage) \o <<cA2>>, 3),
      Listing(<<cA1, cA2>>, 0) }

\* answers for the second repository
ShortCommitListings ==
    { NoListing, Listing(<<cA1>>, 0), Listing(<<cA2>>, 0), Listing(<<cB1, cA1>>, 0) }

\* one iteration of the loop of analyzeRepoCommits on commit cs[i], the
\* stats request answered with `stats`; ok = FALSE once commit.commit.author
\* was null (author.name throws and the loop is left)
FoldStep(acc, cs, i, stats) ==
    IF ~acc.ok
    THEN acc
    ELSE IF ~cs[i].gitAuthor
         THEN [acc EXCEPT !.ok = FALSE]
         ELSE LET folded == FoldCommitInto(acc.stats, cs[i], stats)
              IN  [ok |-> TRUE,
                   \* the comparison has the object evaluated at every step
                   stats |-> IF folded = EmptyMap THEN EmptyMap ELSE folded,
                   keys |-> IF authorId(cs[i]) \in DOMAIN acc.stats
                            THEN acc.keys
                            ELSE Append(acc.keys, authorId(cs[i])),
                   idx |-> i]

\* the iterations lo..hi of the loop, in order: the first half, then,
\* unless it threw, the second half
RECURSIVE FoldRange(_, _, _, _, _)
FoldRange(acc, cs, lo, hi, stats) ==
    IF lo > hi
    THEN acc
    ELSE IF lo = hi
         THEN FoldStep(acc, cs, lo, stats)
         ELSE LET mid == (lo + hi) \div 2
                  left == FoldRange(acc, cs, lo, mid, stats)
              IN  IF ~left.ok THEN left
                              ELSE FoldRange(left, cs, mid + 1, hi, stats)

analyzeRepoCommits(o, repo, response) ==
    LET cs == getCommitsInRange(o, repo)
    IN  FoldRange([ok |-> TRUE, stats |-> EmptyMap, keys |-> <<>>, idx |-> 0],
                  cs, 1, Len(cs), getCommitStats(response))

\* the keys the merge loop adds to aggregatedStats, in insertion order
NewKeys(agg, keys) ==
    LET isNew(k) == k \notin DOMAIN agg IN SelectSeq(keys, isNew)

\* one iteration of the loop over reposToTrack: analyzeRepoCommits, store,
\* merge; a throw stores {} for the repository
ProcessRepo(response) ==
    /\ pc = "loop"
    /\ completed < Len(reposToTrack)
    /\ LET repo == reposToTrack[completed + 1]
           a == analyzeRepoCommits(origin, repo, response)
       IN  /\ completed' = completed + 1
           /\ commits' = getCommitsInRange(origin, repo)
           /\ idx' = a.idx
           /\ devStats' = a.stats
           /\ devKeys' = a.keys
           /\ statsByRepo' = [r \in DOMAIN statsByRepo \cup {repo} |->
                                 IF r = repo THEN (IF a.ok THEN a.stats ELSE EmptyMap)
                                             ELSE statsByRepo[r]]
           /\ IF a.ok
              THEN /\ aggregatedStats' = MergeRepoInto(aggregatedStats, repo, a.stats, a.keys)
                   /\ aggKeys' = aggKeys \o NewKeys(aggregatedStats, a.keys)
                   /\ mergeIdx' = Len(a.keys)
              ELSE UNCHANGED <<aggregatedStats, aggKeys, mergeIdx>>
    /\ UNCHANGED <<srvVars, calcVars, ghVars, configVars, pc, reposToTrack, allContributors,
                   result, report>>

InitPaged ==
    /\ orgName = "Acme"
    /\ repositories \in {[isNull |-> FALSE, list |-> l] :
                            l \in {<<"r1">>, <<"r1", "r2">>, <<"r2", "r1">>}}
    /\ origin \in [orgRepos : {NoListing}, userRepos : {NoListing},
                   contributors : [Repos -> {NoListing, Listing(<<"alice">>, 0),
                                             Listing(<<"carol", "alice">>, 0)}],
                   commits : [Repos -> PagedCommitListings \cup ShortCommitListings]]
    /\ origin.commits["r1"] \in PagedCommitListings
    /\ origin.commits["r2"] \in ShortCommitListings
    /\ origin.contributors["r1"] # NoListing
    /\ origin.contributors["r2"] = NoListing
    /\ "r2" \notin Range(repositories.list) => origin.commits["r2"] = NoListing
    /\ GhIdle
    /\ CalcIdle
    /\ SrvIdle
    /\ pc = "start"
    /\ reposToTrack = <<>>
    /\ allContributors = <<>>
    /\ aggregatedStats = EmptyMap
    /\ aggKeys = <<>>
    /\ statsByRepo = EmptyMap
    /\ completed = 0
    /\ commits = <<>>
    /\ idx = 0
    /\ devStats = EmptyMap
    /\ devKeys = <<>>
    /\ mergeIdx = 0
    /\ result = NoResult
    /\ report = NoReport

NextPaged ==
    \/ ResolveScope
    \/ ResolveRoster
    \/ \E response \in StatsResponses : ProcessRepo(response)
    \/ ReturnStats

SpecPaged == InitPaged /\ [][NextPaged]_vars

\* C17: every author record of a per-repository result has commits equal
\* to the number of distinct commit identifiers folded into it, also when
\* the origin's pages hold the same sha more than once.
C17_DistinctShaCount ==
    result.returned =>
        \A r \in DOMAIN result.byRepo :
            \A k \in DOMAIN result.byRepo[r] :
                result.byRepo[r][k].commits
                    = Cardinality(Range(result.byRepo[r][k].commitShas))

\* the name and the contact email of every author of an aggregated result
Identities(agg) == [k \in DOMAIN agg |-> [name |-> agg[k].name, email |-> agg[k].email]]

\* C18: the aggregated result, each author's name and email included, is
\* the same for every order in which the repositories are merged.
C18_OrderIndependentIdentity ==
    (result.returned /\ Len(reposToTrack) > 0) =>
        \A order \in Orders(reposToTrack) :
            LET merged == MergeInOrder(InitRoster(result.allContributors), order,
                                       result.byRepo)
            IN  /\ Totals(merged) = Totals(result.aggregated)
                /\ Identities(merged) = Identities(result.aggregated)

\* C19: a repository whose commit listing fails, on the first or on a later
\* page, contributes nothing: its byRepo entry is empty and the aggregated
\* totals are those of the other repositories, which are still processed.
C19_FailedListingContributesNothing ==
    result.returned =>
        /\ Range(reposToTrack) \subseteq DOMAIN result.byRepo
        /\ \A r \in Range(reposToTrack) :
              ListingFails(origin.commits[r]) =>
                  /\ result.byRepo[r] = EmptyMap
                  /\ Totals(result.aggregated) =
                         Totals(MergeInOrder(InitRoster(result.allContributors),
                                             Without(reposToTrack, r), result.byRepo))

\* ------------------------------------------------------------------------
\* GET /api/user/:username
\* ------------------------------------------------------------------------
\* a report document with its aggregated map (commits per username)
UserReportFile(period, mtimeMs, aggregated, readable) ==
    [exists |-> TRUE, mtimeMs |-> mtimeMs, readable |-> readable,
     doc |-> [period |-> period, generatedAt |-> mtimeMs, aggregated |-> aggregated]]

\* getReportFromFile as a whole: null for a missing, old or unreadable file
getReportFromFile(fs, period, t) ==
    IF FileIsFresh(fs[period], t) THEN FileContent(fs[period])
                                  ELSE [ok |-> FALSE, doc |-> NoData]

\* file && file.aggregated && username in file.aggregated
UserInFile(fileData, username) ==
    fileData.ok /\ username \in DOMAIN fileData.doc.aggregated

\* mutant: a period without the user resets userExistsAnywhere
UserExists_LastOnly(found, fileData, username) == UserInFile(fileData, username)

\* userExistsAnywhere after the check of one period
UserExists(found, fileData, username) == found \/ UserInFile(fileData, username)

\* the response body: data?.commits || 0 for every period
UserBody(username, data) ==
    [username |-> username,
     daily |-> IF data["daily"] > 0 THEN data["daily"] ELSE 0,
     weekly |-> IF data["weekly"] > 0 THEN data["weekly"] ELSE 0,
     monthly |-> IF data["monthly"] > 0 THEN data["monthly"] ELSE 0]

UserRespond(q, status, source, body) ==
    [q EXCEPT !.pc = "responded",
              !.response = [status |-> status, source |-> source, body |-> body]]

\* the period checked after p
NextPeriod(p) == IF p = "daily" THEN "weekly" ELSE "monthly"

userUnchanged == <<aggVars, ghVars, calcVars, reqs, gen, archive, clr>>

\* the handler up to its first await: the memory lookup
UserReceive(username, period) ==
    /\ ureq.pc = "idle"
    /\ LET cacheKey == getCacheKey("user", username, DateStr, period)
           cached == getFromCache(cache, cacheKey, now)
           q == [UserIdle EXCEPT !.username = username, !.period = period,
                                 !.cacheKey = cacheKey]
       IN  /\ cache' = cached.cache
           /\ ureq' = IF cached.hit THEN UserRespond(q, 200, "memory", cached.data)
                                    ELSE [q EXCEPT !.pc = "daily"]
    /\ UNCHANGED <<userUnchanged, now, files>>

\* await getReportFromFile('multi', period, date) resolves for the period
\* at work; after the monthly one the handler answers from the files or
\* goes on to aggregateStats
UserLookup ==
    /\ ureq.pc \in Periods
    /\ LET p == ureq.pc
           fileData == getReportFromFile(files, p, now)
           found == UserExists(ureq.found, fileData, ureq.username)
           data == IF UserInFile(fileData, ureq.username)
                   THEN [ureq.data EXCEPT ![p] = fileData.doc.aggregated[ureq.username]]
                   ELSE ureq.data
           q == [ureq EXCEPT !.found = found, !.data = data]
           body == UserBody(ureq.username, data)
       IN  IF p # "monthly"
           THEN /\ ureq' = [q EXCEPT !.pc = NextPeriod(p)]
                /\ cache' = cache
           ELSE IF found
                THEN /\ ureq' = UserRespond(q, 200, "files", body)
                     /\ cache' = setCache(cache, ureq.cacheKey, body, now)
                ELSE /\ ureq' = [q EXCEPT !.pc = "compute", !.computed = TRUE]
                     /\ cache' = cache
    /\ UNCHANGED <<userUnchanged, now, files>>

\* the aggregateStats calls resolve; inPeriods = the periods whose result
\* holds the user
UserComplete(inPeriods) ==
    /\ ureq.pc = "compute"
    /\ ureq.period # "all" => inPeriods \subseteq {ureq.period}
    /\ LET data == [p \in Periods |-> IF p \in inPeriods THEN 1 ELSE -1]
           body == UserBody(ureq.username, data)
       IN  IF inPeriods = {}
           THEN /\ ureq' = UserRespond(ureq, 404, "origin", UserIdle.response.body)
                /\ cache' = cache
           ELSE /\ ureq' = UserRespond([ureq EXCEPT !.data = data], 200, "origin", body)
                /\ cache' = setCache(cache, ureq.cacheKey, body, now)
    /\ UNCHANGED <<userUnchanged, now, files>>

\* an aggregateStats call rejects: the catch of the handler answers 500
UserFail ==
    /\ ureq.pc = "compute"
    /\ ureq' = UserRespond(ureq, 500, "error", UserIdle.response.body)
    /\ UNCHANGED <<userUnchanged, now, cache, files>>

UserFinish ==
    /\ ureq.pc = "responded"
    /\ ureq' = UserIdle
    /\ UNCHANGED <<userUnchanged, now, cache, files>>

UserTick(d) ==
    /\ now + d <= StartTime + MaxMinutes * Minute
    /\ now' = now + d
    /\ UNCHANGED <<userUnchanged, cache, files, ureq>>

WithAlice(n) == [u \in {"alice"} |-> n]

WithBob == [u \in {"bob"} |-> 3]

\* the report files on disk: none, fresh ones with or without the user, one
\* of 58 minutes, an unreadable one
UserFiles(p) ==
    IF p = "daily"
    THEN { NoFile,
           UserReportFile(p, StartTime - 10 * Minute, WithAlice(2), TRUE),
           UserReportFile(p, StartTime - 10 * Minute, WithBob, TRUE),
           UserReportFile(p, StartTime - 58 * Minute, WithAlice(2), TRUE),
           UserReportFile(p, StartTime - 10 * Minute, WithAlice(2), FALSE) }
    ELSE IF p = "weekly"
         THEN { NoFile,
                UserReportFile(p, StartTime - 10 * Minute, WithAlice(4), TRUE),
                UserReportFile(p, StartTime - 58 * Minute, WithAlice(4), TRUE) }
         ELSE { NoFile,
                UserReportFile(p, StartTime - 10 * Minute, WithAlice(0), TRUE),
                UserReportFile(p, StartTime - 10 * Minute, WithBob, TRUE) }

UserCaches ==
    { EmptyMap,
      setCache(EmptyMap, getCacheKey("user", "alice", DateStr, "all"),
               UserBody("alice", [p \in Periods |-> 1]), StartTime - 3 * Minute) }

InitUser ==
    /\ AggIdle
    /\ GhIdle
    /\ CalcIdle
    /\ now = StartTime
    /\ cache \in UserCaches
    /\ files \in [Periods -> UNION {UserFiles(p) : p \in Periods}]
    /\ \A p \in Periods : files[p] \in UserFiles(p)
    /\ reqs = [r \in Reqs |-> IdleRequest]
    /\ gen = GenIdle
    /\ archive = NoArchive
    /\ clr = ClrIdle
    /\ ureq = UserIdle

NextUser ==
    \/ \E username \in {"alice", "zed"}, period \in {"all", "daily"} :
          UserReceive(username, period)
    \/ UserLookup
    \/ \E inPeriods \in SUBSET Periods : UserComplete(inPeriods)
    \/ UserFail
    \/ UserFinish
    \/ \E d \in StartTickSteps : UserTick(d)

SpecUser == InitUser /\ [][NextUser]_vars

\* the file of the period is fresh and readable at this instant and its
\* aggregated map has the requested username as a key
UserKeyIn(p) ==
    /\ SnapshotFresh(p)
    /\ SnapshotReadable(p)
    /\ ureq.username \in DOMAIN files[p].doc.aggregated

\* the memory entry of the key is there and younger than CACHE_DURATION
MemoryFreshFor(key) ==
    key \in DOMAIN cache /\ now - cache[key].timestamp < CACHE_DURATION

\* C20: GET /api/user/:username answers from cached data, without any
\* aggregateStats call, when a fresh memory entry exists for the user key or
\* when the username is a key of the aggregated map of at least one period's
\* file that is fresh when the handler looks at it; aggregateStats is
\* called only when the user was found in none of them.
C20_UserFromCache ==
    [][ /\ (ureq.pc = "idle" /\ ureq'.pc # "idle" /\ MemoryFreshFor(ureq'.cacheKey))
            => /\ ureq'.pc = "responded"
               /\ ureq'.response.source = "memory"
               /\ ureq'.response.body = cache[ureq'.cacheKey].data
               /\ ~ureq'.computed
        /\ (ureq.pc \in Periods /\ ureq' # ureq /\ UserKeyIn(ureq.pc))
            => /\ ureq'.found
               /\ ureq'.data[ureq.pc] = files[ureq.pc].doc.aggregated[ureq.username]
               /\ ~ureq'.computed
        /\ (ureq.pc \in Periods /\ ureq' # ureq /\ ureq.found)
            => /\ ureq'.found
               /\ ~ureq'.computed
               /\ \A p \in Periods : ureq.data[p] # -1 => ureq'.data[p] = ureq.data[p]
        /\ (ureq.pc = "monthly" /\ ureq'.pc = "responded")
            => /\ ureq'.found
               /\ ureq'.response.status = 200
               /\ ureq'.response.source = "files"
               /\ \A p \in Periods :
                      ureq'.response.body[p] =
                          IF ureq'.data[p] > 0 THEN ureq'.data[p] ELSE 0
               /\ cache'[ureq.cacheKey].data = ureq'.response.body
        /\ (ureq'.computed /\ ~ureq.computed)
            => /\ ureq.pc = "monthly"
               /\ ~ureq.found
               /\ ~UserKeyIn("monthly")
      ]_vars

\* the daily detail of alice was asked for, only the weekly file held her,
\* and the answer came from the files
C20_Witness ==
    /\ ureq.pc = "responded"
    /\ ureq.username = "alice"
    /\ ureq.period = "daily"
    /\ ureq.response.source = "files"
    /\ ureq.data = [p \in Periods |-> IF p = "weekly" THEN 4 ELSE -1]
    /\ ureq.response.body.weekly = 4
    /\ ureq.response.body.daily = 0
    /\ ~ureq.computed

\* ------------------------------------------------------------------------
\* aggregateStats: the date range of a period
\* ------------------------------------------------------------------------
Years == {2024, 2025}

IsLeap(y) == y % 4 = 0 /\ (y % 100 # 0 \/ y % 400 = 0)

MonthLen(y, m) ==
    IF m = 2 THEN (IF IsLeap(y) THEN 29 ELSE 28)
    ELSE IF m \in {4, 6, 9, 11} THEN 30 ELSE 31

RECURSIVE DaysBeforeMonth(_, _)
DaysBeforeMonth(y, m) ==
    IF m = 1 THEN 0 ELSE DaysBeforeMonth(y, m - 1) + MonthLen(y, m - 1)

DaysBeforeYear(y) == IF y = 2024 THEN 0 ELSE 366

\* the day count of a calendar day
DayNumber(y, m, d) == DaysBeforeYear(y) + DaysBeforeMonth(y, m) + d - 1

\* the calendar day of a day count: [y, m, d]
Calendar(day) ==
    CHOOSE c \in [y : Years, m : 1..12, d : 1..31] :
        c.d <= MonthLen(c.y, c.m) /\ DayNumber(c.y, c.m, c.d) = day

\* Date.prototype.getDate
getDate(dt) == Calendar(dt.day).d

\* Date.prototype.setDate: a value outside the month rolls into the
\* neighbouring months
setDate(dt, v) ==
    LET c == Calendar(dt.day)
    IN  [dt EXCEPT !.day = DayNumber(c.y, c.m, 1) + v - 1]

\* Date.prototype.setHours(h, min, s, ms)
setHours(dt, h, mi, sec, ms) ==
    [dt EXCEPT !.ms = ((h * 60 + mi) * 60 + sec) * 1000 + ms]

\* startDate and endDate of aggregateStats(period, date); any other period
\* is treated as daily
DateRange(period, date) ==
    IF period = "weekly"
    THEN [startDate |-> setHours(setDate(date, getDate(date) - 7), 0, 0, 0, 0),
          endDate |-> setHours(date, 23, 59, 59, 999)]
    ELSE IF period = "monthly"
    THEN [startDate |-> setHours(setDate(date, getDate(date) - 30), 0, 0, 0, 0),
          endDate |-> setHours(date, 23, 59, 59, 999)]
    ELSE LET startDate == setHours(date, 0, 0, 0, 0)
         IN  [startDate |-> startDate,
              endDate |-> setDate(startDate, getDate(startDate) + 1)]

windowUnchanged == <<aggVars, ghVars, srvVars, sreq, sfiles, statsOf, board, pager>>

\* aggregateStats up to the list of repositories
ComputeRange(period, date) ==
    /\ win.pc = "idle"
    /\ LET range == DateRange(period, date)
       IN  win' = [pc |-> "ranged", period |-> period, date |-> date,
                   startDate |-> range.startDate, endDate |-> range.endDate]
    /\ UNCHANGED windowUnchanged

\* the call is over
ForgetRange ==
    /\ win.pc = "ranged"
    /\ win' = WinIdle
    /\ UNCHANGED windowUnchanged

\* the dates asked for: February and March of a leap year, the turn of the
\* year, and November 2025
AnchorDays ==
    (DayNumber(2024, 2, 25)..DayNumber(2024, 3, 31))
        \cup (DayNumber(2025, 1, 1)..DayNumber(2025, 1, 10))
        \cup (DayNumber(2025, 11, 1)..DayNumber(2025, 11, 30))

AnchorTimes == {0, 12 * 60 * Minute, 24 * 60 * Minute - 1}

InitWindow ==
    /\ AggIdle
    /\ GhIdle
    /\ SrvIdle
    /\ CalcIdle

NextWindow ==
    \/ \E period \in Periods \cup {"yearly"}, day \in AnchorDays, ms \in AnchorTimes :
          ComputeRange(period, DateOf(day, ms))
    \/ ForgetRange

SpecWindow == InitWindow /\ [][NextWindow]_vars

\* the calendar days with an instant inside [startDate, endDate]
DaysCounted(w) == w.startDate.day..w.endDate.day

\* C21: for anchor date D the weekly range covers exactly the 7 calendar
\* days D-6 .. D and the monthly range the days D-30 .. D, and startDate is
\* midnight of the first of these days.
C21_WindowDays ==
    win.pc = "ranged" =>
        /\ win.period = "weekly" =>
               /\ DaysCounted(win) = (win.date.day - 6)..win.date.day
               /\ win.startDate = DateOf(win.date.day - 6, 0)
        /\ win.period = "monthly" =>
               /\ DaysCounted(win) = (win.date.day - 30)..win.date.day
               /\ win.startDate = DateOf(win.date.day - 30, 0)

\* ------------------------------------------------------------------------
\* GET /api/report/single/:period
\* ------------------------------------------------------------------------
\* the response of the single endpoint, as stored in a report file
SingleDoc(period, repo, generatedAt) ==
    [period |-> period, repository |-> repo, generatedAt |-> generatedAt]

SingleFile(period, repo, mtimeMs) ==
    [exists |-> TRUE, mtimeMs |-> mtimeMs, readable |-> TRUE,
     doc |-> SingleDoc(period, repo, mtimeMs)]

singleUnchanged ==
    <<aggVars, ghVars, win, sfiles, statsOf, board, pager, files, jobVars>>

\* the handler up to its first await; the query parameter forceRefresh is
\* not read by this handler
SingleReceive(period, repo, forceRefresh) ==
    /\ sreq.pc = "idle"
    /\ LET cacheKey == getCacheKey("single", period, DateStr, repo)
           cached == getFromCache(cache, cacheKey, now)
           q == [SingleIdle EXCEPT !.period = period, !.repo = repo,
                                   !.forceRefresh = forceRefresh]
       IN  IF period \notin Periods
           THEN /\ sreq' = Respond(q, 400, "none", NoData)
                /\ cache' = cache
           ELSE /\ cache' = cached.cache
                /\ sreq' = IF cached.hit
                           THEN Respond([q EXCEPT !.cacheKey = cacheKey],
                                        200, "memory", cached.data)
                           ELSE [q EXCEPT !.cacheKey = cacheKey, !.pc = "file"]
    /\ UNCHANGED <<singleUnchanged, reqs, now>>

\* await getReportFromFile('single', period, date) resolves
SingleLookup ==
    /\ sreq.pc = "file"
    /\ LET fileData == getReportFromFile(sfiles, sreq.period, now)
       IN  IF fileData.ok /\ fileData.doc.repository = sreq.repo
           THEN /\ cache' = setCache(cache, sreq.cacheKey, fileData.doc, now)
                /\ sreq' = Respond(sreq, 200, "file", fileData.doc)
           ELSE /\ cache' = cache
                /\ sreq' = [sreq EXCEPT !.pc = "compute", !.computed = TRUE]
    /\ UNCHANGED <<singleUnchanged, reqs, now>>

\* the report of the GitHubDevTracker resolves: response, setCache, res.json
SingleComplete ==
    /\ sreq.pc = "compute"
    /\ LET response == SingleDoc(sreq.period, sreq.repo, now)
       IN  /\ cache' = setCache(cache, sreq.cacheKey, response, now)
           /\ sreq' = Respond(sreq, 200, "origin", response)
    /\ UNCHANGED <<singleUnchanged, reqs, now>>

\* the report rejects: the catch of the handler answers 500
SingleFail ==
    /\ sreq.pc = "compute"
    /\ sreq' = Respond(sreq, 500, "error", NoData)
    /\ UNCHANGED <<singleUnchanged, reqs, now, cache>>

SingleFinish ==
    /\ sreq.pc = "responded"
    /\ sreq' = SingleIdle
    /\ UNCHANGED <<singleUnchanged, reqs, now, cache>>

\* the single-repository report files on disk: none, one of the repository
\* asked for, one of another repository
SingleFiles(p) ==
    IF p # "daily" THEN {NoFile} ELSE
    { NoFile,
      SingleFile(p, "app", StartTime - 10 * Minute),
      SingleFile(p, "lib", StartTime - 10 * Minute) }

InitSingle ==
    /\ AggIdle
    /\ GhIdle
    /\ board = BoardIdle
    /\ pager = PagerIdle
    /\ win = WinIdle
    /\ statsOf = EmptyMap
    /\ sreq = SingleIdle
    /\ sfiles \in [Periods -> UNION {SingleFiles(p) : p \in Periods}]
    /\ \A p \in Periods : sfiles[p] \in SingleFiles(p)
    /\ now = StartTime
    /\ cache = EmptyMap
    /\ files \in [Periods -> UNION {InitialFiles(p) : p \in Periods}]
    /\ \A p \in Periods : files[p] \in InitialFiles(p)
    /\ reqs = [r \in Reqs |-> IdleRequest]
    /\ JobsIdle

\* one request to each of the two report endpoints
NextSingle ==
    \/ \E period \in RequestedPeriods, forceRefresh \in BOOLEAN :
          SingleReceive(period, "app", forceRefresh)
    \/ SingleLookup
    \/ SingleComplete
    \/ SingleFail
    \/ SingleFinish
    \/ \E forceRefresh \in BOOLEAN : Receive(1, "daily", forceRefresh)
    \/ StatFile(1)
    \/ ReadFile(1)
    \/ Complete(1)
    \/ Finish(1)
    \/ \E d \in StartTickSteps : Tick(d)

SpecSingle == InitSingle /\ [][NextSingle]_vars

\* C22: on both report endpoints a request with forceRefresh=true is never
\* answered with a memory entry or a file entry: its report comes from the
\* origin.
C22_ForceRefreshRecomputes ==
    /\ \A r \in Reqs :
          (reqs[r].pc = "responded" /\ reqs[r].forceRefresh
              /\ reqs[r].response.status = 200)
            => reqs[r].response.source = "origin" /\ reqs[r].computed
    /\ (sreq.pc = "responded" /\ sreq.forceRefresh /\ sreq.response.status = 200)
            => sreq.response.source = "origin" /\ sreq.computed

\* ------------------------------------------------------------------------
\* analyzeRepoCommits against an origin with fixed commit statistics
\* ------------------------------------------------------------------------
Shas == {"s1", "s2", "s3", "s4"}

\* mutant: a commit whose stats fetch failed is not counted
FetchAndFold_SkipFailed(ds, c, response) ==
    IF response.ok
    THEN FoldCommitInto(ds, c, getCommitStats(response))
    ELSE LET folded == FoldCommitInto(ds, c, getCommitStats(response))
         IN  [folded EXCEPT ![authorId(c)].commits = @ - 1]

\* const stats = await this.getCommitStats(repo, commitSha), then the fold
FetchAndFold(ds, c, response) == FoldCommitInto(ds, c, getCommitStats(response))

\* one commit of analyzeRepoCommits; the origin answers the stats fetch of
\* the sha with statsOf
FoldFetched ==
    /\ pc = "fold"
    /\ idx < Len(commits)
    /\ commits[idx + 1].gitAuthor
    /\ devStats' = FetchAndFold(devStats, commits[idx + 1], statsOf[commits[idx + 1].sha])
    /\ devKeys' = IF authorId(commits[idx + 1]) \in DOMAIN devStats
                  THEN devKeys
                  ELSE Append(devKeys, authorId(commits[idx + 1]))
    /\ idx' = idx + 1
    /\ pc' = IF idx' = Len(commits) THEN "store" ELSE "fold"
    /\ UNCHANGED <<srvVars, calcVars, ghVars, configVars, reposToTrack, allContributors,
                   aggregatedStats, aggKeys, statsByRepo, completed, commits, mergeIdx,
                   result, report>>

InitFetch ==
    /\ orgName = "Acme"
    /\ repositories = [isNull |-> FALSE, list |-> <<"r1">>]
    /\ origin \in [orgRepos : {NoListing}, userRepos : {NoListing},
                   contributors : [Repos -> {NoListing}],
                   commits : [Repos -> CommitListings \cup {Listing(<<cA1, cB1, cA2>>, 0)}]]
    /\ origin.commits["r2"] = NoListing
    /\ statsOf \in [Shas -> StatsResponses]
    /\ statsOf["s4"] = StatsFailure
    /\ GhIdle
    /\ board = BoardIdle
    /\ pager = PagerIdle
    /\ win = WinIdle
    /\ sreq = SingleIdle
    /\ sfiles = [p \in Periods |-> NoFile]
    /\ SrvIdle
    /\ pc = "start"
    /\ reposToTrack = <<>>
    /\ allContributors = <<>>
    /\ aggregatedStats = EmptyMap
    /\ aggKeys = <<>>
    /\ statsByRepo = EmptyMap
    /\ completed = 0
    /\ commits = <<>>
    /\ idx = 0
    /\ devStats = EmptyMap
    /\ devKeys = <<>>
    /\ mergeIdx = 0
    /\ result = NoResult
    /\ report = NoReport

NextFetch ==
    \/ ResolveScope
    \/ ResolveRoster
    \/ NextRepo
    \/ FoldFetched
    \/ FoldThrows
    \/ StoreRepoStats
    \/ MergeDev
    \/ EndRepo
    \/ ReturnStats

SpecFetch == InitFetch /\ [][NextFetch]_vars

\* the positions of the list whose commit belongs to author a
CommitsOf(cs, a) == {i \in DOMAIN cs : authorId(cs[i]) = a}

\* what the origin reports for the commit, nothing when the fetch fails
Reported(c, field) == IF statsOf[c.sha].ok THEN statsOf[c.sha][field] ELSE 0

RECURSIVE ReportedSum(_, _, _)
ReportedSum(cs, is, field) ==
    IF is = {} THEN 0
    ELSE LET i == CHOOSE j \in is : TRUE
         IN  Reported(cs[i], field) + ReportedSum(cs, is \ {i}, field)

\* C23: a failing stats fetch counts as additions 0 and deletions 0 and does
\* not raise: every commit of the list, the failing ones included, counts one
\* for its author, and an author's additions and deletions are the sums over
\* the author's commits whose fetch succeeded.
C23_FailedStatsCountAsZero ==
    /\ pc = "store" /\ Len(commits) > 0 =>
          /\ DOMAIN devStats = {authorId(commits[i]) : i \in DOMAIN commits}
          /\ \A a \in DOMAIN devStats :
                /\ devStats[a].commits = Cardinality(CommitsOf(commits, a))
                /\ devStats[a].additions =
                       ReportedSum(commits, CommitsOf(commits, a), "additions")
                /\ devStats[a].deletions =
                       ReportedSum(commits, CommitsOf(commits, a), "deletions")
    /\ (pc = "fold" /\ \A i \in DOMAIN commits : commits[i].gitAuthor) =>
          /\ idx < Len(commits)
          /\ ENABLED FoldFetched

\* alice has two commits, the fetch of the first failed and the second one
\* added a line
C23_Witness ==
    /\ pc = "store"
    /\ commits = <<cA1, cB1, cA2>>
    /\ ~statsOf["s1"].ok
    /\ statsOf["s2"] = [ok |-> TRUE, additions |-> 1, deletions |-> 0]
    /\ devStats["alice"].commits = 2
    /\ devStats["alice"].additions = 1
    /\ devStats["bob"].commits = 1

\* ------------------------------------------------------------------------
\* GET /api/leaderboard/:period
\* ------------------------------------------------------------------------
MaxUsers == 3

\* the first MaxUsers authors
BoardUsers == SubSeq(<<"alice", "bob", "carol", "dave", "erin">>, 1, MaxUsers)

\* parseInt(req.query.top) || 10; 0 stands for a missing parameter too
ParseSize(q) == IF q = 0 THEN 10 ELSE q

\* leaderboard.slice(0, topN) for topN >= 0
SliceTop(lb, topN) == SubSeq(lb, 1, Min(topN, Len(lb)))

Reverse(seq) == [i \in DOMAIN seq |-> seq[Len(seq) + 1 - i]]

\* leaderboard[leaderboard.length - 1]?.commits || 0
LowestCommits(lb) == IF Len(lb) = 0 THEN 0 ELSE lb[Len(lb)].commits

\* the filter of the bottom list: the entries with the lowest commit count
\* and the entries of the last bottomN positions
RECURSIVE BottomFilter(_, _, _)
BottomFilter(lb, i, bottomN) ==
    IF i > Len(lb) THEN <<>>
    ELSE LET rest == BottomFilter(lb, i + 1, bottomN)
         IN  IF lb[i].commits = LowestCommits(lb) \/ i - 1 >= Len(lb) - bottomN
             THEN <<lb[i]>> \o rest
             ELSE rest

SliceBottom(lb, bottomN) == Reverse(BottomFilter(lb, 1, bottomN))

boardUnchanged == <<aggVars, ghVars, srvVars, win, sreq, sfiles, statsOf, pager>>

\* the handler up to await tracker.aggregateStats
BoardReceive(period, top, bottom) ==
    /\ board.pc = "idle"
    /\ board' = IF period \notin Periods
                THEN [BoardIdle EXCEPT !.pc = "responded", !.period = period,
                                       !.status = 400]
                ELSE [BoardIdle EXCEPT !.pc = "compute", !.period = period,
                                       !.topN = ParseSize(top),
                                       !.bottomN = ParseSize(bottom)]
    /\ UNCHANGED boardUnchanged

\* aggregateStats resolves with the aggregated map: createLeaderboard, the
\* two lists, res.json
BoardComplete(keys, aggregated) ==
    /\ board.pc = "compute"
    /\ LET leaderboard == createLeaderboard(aggregated, keys, 0)
       IN  board' = [board EXCEPT !.pc = "responded", !.status = 200,
                                  !.leaderboard = leaderboard,
                                  !.top = SliceTop(leaderboard, board.topN),
                                  !.bottom = SliceBottom(leaderboard, board.bottomN)]
    /\ UNCHANGED boardUnchanged

\* aggregateStats rejects
BoardFail ==
    /\ board.pc = "compute"
    /\ board' = [board EXCEPT !.pc = "responded", !.status = 500]
    /\ UNCHANGED boardUnchanged

BoardFinish ==
    /\ board.pc = "responded"
    /\ board' = BoardIdle
    /\ UNCHANGED boardUnchanged

\* the aggregated maps: up to MaxUsers authors with 0 to 2 commits
BoardStats(n) ==
    { [u \in Range(SubSeq(BoardUsers, 1, n)) |->
          [ZeroStats(u, "") EXCEPT !.commits = c[u], !.netLines = c[u]]] :
      c \in [Range(SubSeq(BoardUsers, 1, n)) -> 0..2] }

InitBoard ==
    /\ AggIdle
    /\ GhIdle
    /\ SrvIdle
    /\ CalcIdle

NextBoard ==
    \/ \E period \in RequestedPeriods, top \in 0..MaxUsers, bottom \in 0..MaxUsers :
          BoardReceive(period, top, bottom)
    \/ \E n \in 0..MaxUsers : \E aggregated \in BoardStats(n) :
          BoardComplete(SubSeq(BoardUsers, 1, n), aggregated)
    \/ BoardFail
    \/ BoardFinish

SpecBoard == InitBoard /\ [][NextBoard]_vars

\* C24: for a ranking of n entries, 'top' is its first min(topN, n) entries in
\* rank order and 'bottom' its last min(bottomN, n) entries in reverse rank
\* order, so 'bottom' never has more than bottomN entries (topN, bottomN >= 1).
C24_LeaderboardSlices ==
    (board.pc = "responded" /\ board.status = 200
        /\ board.topN >= 1 /\ board.bottomN >= 1) =>
        LET n == Len(board.leaderboard)
        IN  /\ board.top = SubSeq(board.leaderboard, 1, Min(board.topN, n))
            /\ board.bottom =
                   Reverse(SubSeq(board.leaderboard, n - Min(board.bottomN, n) + 1, n))
            /\ Len(board.bottom) <= board.bottomN

\* ------------------------------------------------------------------------
\* The paginated reads, one request per step
\* ------------------------------------------------------------------------
\* getCommitsInRange / getCommitsFromBranch, getAllBranches,
\* getAllContributors (one repository), getAllRepositories (Method 1)
PagerKinds == {"commits", "branches", "contributors", "repos"}

\* the origin's items: commits, or entries with a name or login
PagerItems(kind, n) ==
    IF kind = "commits" THEN FillerCommits(n)
    ELSE [i \in 1..n |-> [name |-> "n" \o ToString(i)]]

ItemNames(items) == [i \in DOMAIN items |-> items[i].name]

\* the logins of fresh in the order of their first occurrence, behind all
AppendFirsts(all, fresh) ==
    LET first == {i \in DOMAIN fresh : \A j \in 1..(i - 1) : fresh[j] # fresh[i]}
        nth(k) == CHOOSE i \in first : Cardinality({j \in first : j <= i}) = k
    IN  IF \A i \in DOMAIN fresh : \A j \in 1..(i - 1) : fresh[j] # fresh[i]
        THEN all \o fresh
        ELSE all \o [k \in 1..Cardinality(first) |-> fresh[nth(k)]]

\* contributors.forEach over a page: the logins not yet in the Set are
\* added in the order of their first occurrence
AddLogins(all, logins) ==
    LET isNew(x) == x \notin Range(all)
    IN  CHOOSE r \in {AppendFirsts(all, fresh) : fresh \in {SelectSeq(logins, isNew)}} :
            TRUE

\* what the loop body adds for a page: commits.push(...pageCommits),
\* branches.push(...names), repos.push(...names), allContributors.add(login)
PushPage(kind, acc, pageItems) ==
    IF kind = "commits" THEN acc \o pageItems
    ELSE IF kind = "contributors"
         THEN AddLogins(acc, ItemNames(pageItems))
    ELSE acc \o ItemNames(pageItems)

\* mutant: a short page does not end the loop
IsLastPage_Never(pageItems) == FALSE

\* if (pageItems.length < perPage) break
IsLastPage(pageItems) == Len(pageItems) < perPage

pagerUnchanged == <<aggVars, ghVars, srvVars, win, sreq, sfiles, statsOf, board>>

\* the read starts: page = 1 and an empty accumulator
PagerStart(kind, listing) ==
    /\ pager.pc = "idle"
    /\ pager' = [PagerIdle EXCEPT !.pc = "reading", !.kind = kind, !.listing = listing]
    /\ UNCHANGED pagerUnchanged

\* one iteration of while (true): the request of the page rejects, or it
\* answers with the page
PagerRequest ==
    /\ pager.pc = "reading"
    /\ LET page == pager.page
           q == [pager EXCEPT !.requested = Append(@, page)]
           pageItems == PageOf(pager.listing.items, page)
       IN  pager' =
             IF pager.listing.failAt = page
             THEN [q EXCEPT !.pc = "done"]
             ELSE IF Len(pageItems) = 0
                  THEN [q EXCEPT !.pc = "done"]
                  ELSE [q EXCEPT !.received = @ \o pageItems,
                                 !.acc = PushPage(pager.kind, @, pageItems),
                                 !.page = page + 1,
                                 !.pc = IF IsLastPage(pageItems) THEN "done"
                                                                 ELSE "reading"]
    /\ UNCHANGED pagerUnchanged

\* the read returned
PagerFinish ==
    /\ pager.pc = "done"
    /\ pager' = PagerIdle
    /\ UNCHANGED pagerUnchanged

\* the lengths of the origin's lists: around one and two pages
PagerLengths == {0, 1, perPage - 1, perPage, perPage + 1, 2 * perPage, 2 * perPage + 1}

InitPager ==
    /\ AggIdle
    /\ GhIdle
    /\ SrvIdle
    /\ CalcIdle

NextPager ==
    \/ \E kind \in PagerKinds, n \in PagerLengths, failAt \in 0..3 :
          PagerStart(kind, Listing(PagerItems(kind, n), failAt))
    \/ PagerRequest
    \/ PagerFinish

SpecPager == InitPager /\ [][NextPager]_vars

\* every request of a read that was started is answered or rejected
SpecPagerFair == SpecPager /\ WF_vars(PagerRequest)

\* the request of the page was answered with a full page
FullPage(listing, page) ==
    listing.failAt # page /\ Len(PageOf(listing.items, page)) = perPage

\* the items of the first k pages
FirstPages(listing, k) == SubSeq(listing.items, 1, Min(k * perPage, Len(listing.items)))

\* the pages were asked for in the order 1, 2, 3, ..., each once; the read
\* goes on exactly while the pages are full; what it holds is the
\* concatenation of the pages it received
PagerInOrder ==
    pager.pc # "idle" =>
        LET k == Len(pager.requested)
            last == IF pager.pc = "done" THEN k - 1 ELSE k
        IN  /\ pager.requested = [i \in 1..k |-> i]
            /\ \A j \in 1..last : FullPage(pager.listing, j)
            /\ pager.pc = "done" => k >= 1 /\ ~FullPage(pager.listing, k)
            /\ pager.received =
                   IF pager.pc = "done" /\ pager.listing.failAt # k
                   THEN FirstPages(pager.listing, k)
                   ELSE FirstPages(pager.listing, last)
            /\ pager.acc = IF pager.kind = "commits" THEN pager.received
                                                     ELSE ItemNames(pager.received)

ReposWith(byRepo, a) == {r \in DOMAIN byRepo : a \in DOMAIN byRepo[r]}

RECURSIVE RepoSum(_, _, _, _)
RepoSum(byRepo, rs, a, field) ==
    IF rs = {} THEN 0
    ELSE LET r == CHOOSE x \in rs : TRUE
         IN  byRepo[r][a][field] + RepoSum(byRepo, rs \ {r}, a, field)

IsDistinct(seq) == \A i, j \in DOMAIN seq : seq[i] = seq[j] => i = j

\* the aggregated map agrees with the per-repository results
AgreesWith(agg, byRepo) ==
    /\ \A r \in DOMAIN byRepo : DOMAIN byRepo[r] \subseteq DOMAIN agg
    /\ \A a \in DOMAIN agg :
          LET rs == ReposWith(byRepo, a)
          IN  /\ agg[a].commits = RepoSum(byRepo, rs, a, "commits")
              /\ agg[a].additions = RepoSum(byRepo, rs, a, "additions")
              /\ agg[a].deletions = RepoSum(byRepo, rs, a, "deletions")
              /\ Range(agg[a].repositories) = rs
              /\ IsDistinct(agg[a].repositories)
              /\ agg[a].commits = 0 <=> agg[a].repositories = <<>>

\* C26: over a scope of distinct repository names, after each repository of
\* the loop and on return, every author's aggregated commits, additions and
\* deletions are the sums over the per-repository results recorded so far,
\* and the author's repositories list is exactly the set of the repositories
\* whose result contains the author, without duplicates.
C26_AggregatedIsSumOfByRepo ==
    IsDistinct(reposToTrack) =>
        /\ pc = "loop" => AgreesWith(aggregatedStats, statsByRepo)
        /\ (pc \in {"done", "printed"} /\ result.returned) =>
               AgreesWith(result.aggregated, result.byRepo)

\* alice has commits in both repositories and carol, of the roster, in none
C26_Witness ==
    /\ pc = "done"
    /\ result.returned
    /\ "alice" \in DOMAIN result.aggregated
    /\ result.aggregated["alice"].repositories = <<"r1", "r2">>
    /\ "carol" \in DOMAIN result.aggregated
    /\ result.aggregated["carol"].commits = 0
    /\ "alice" \in DOMAIN result.byRepo["r1"]
    /\ "alice" \in DOMAIN result.byRepo["r2"]

\* ------------------------------------------------------------------------
\* A forced refresh followed by lookups of the same key
\* ------------------------------------------------------------------------
\* the daily report file on disk: none, or the one generated ten minutes
\* before the server started to listen
RefreshFiles(p) ==
    IF p # "daily" THEN {NoFile}
    ELSE {NoFile, ReportFile(p, StartTime - 10 * Minute, StartTime - 10 * Minute, TRUE)}

InitRefresh ==
    /\ AggIdle
    /\ GhIdle
    /\ CalcIdle
    /\ now = StartTime
    /\ cache = EmptyMap
    /\ files \in [Periods -> UNION {RefreshFiles(p) : p \in Periods}]
    /\ \A p \in Periods : files[p] \in RefreshFiles(p)
    /\ reqs = [r \in Reqs |-> IdleRequest]
    /\ JobsIdle

\* request 2 is the forced refresh; request 1 stands for the lookups that
\* are received after its response; the memory tier is not cleared
NextRefresh ==
    \/ Receive(2, "daily", TRUE)
    \/ Complete(2)
    \/ reqs[2].pc = "responded" /\ Receive(1, "daily", FALSE)
    \/ StatFile(1)
    \/ ReadFile(1)
    \/ Complete(1)
    \/ Finish(1)
    \/ \E d \in TickSteps : Tick(d)

SpecRefresh == InitRefresh /\ [][NextRefresh]_vars

\* C27: after a forced refresh of a multi-repository report key completed at
\* time T, and without a clear in between, no later non-forced lookup of the
\* key returns a report generated before T.
C27_NoOlderReportAfterRefresh ==
    (reqs[2].pc = "responded" /\ reqs[2].response.status = 200
        /\ reqs[1].pc = "responded" /\ reqs[1].response.status = 200) =>
        reqs[1].response.body.generatedAt >= reqs[2].response.body.generatedAt

\* ------------------------------------------------------------------------
\* Two overlapping recomputations of the same key
\* ------------------------------------------------------------------------
\* request 1 starts its computation first, request 2 starts while request 1
\* is computing; they complete in either order
NextOverlap ==
    \/ reqs[2].pc = "idle" /\ Receive(1, "daily", TRUE)
    \/ reqs[1].pc = "compute" /\ Receive(2, "daily", TRUE)
    \/ Complete(1)
    \/ Complete(2)
    \/ reqs[2].pc = "responded" /\ Finish(1)
    \/ reqs[1].pc = "idle" /\ Finish(2)
    \/ \E d \in TickSteps : Tick(d)

SpecOverlap == InitRefresh /\ [][NextOverlap]_vars

\* C28: the memory tier never replaces a cached report with a report whose
\* origin reads started earlier: while the entry of the key is the report of
\* request 2, the computation of request 1, which started first, does not
\* overwrite it.
C28_NoOlderComputationWins ==
    [][(/\ reqs[1].pc = "compute"
        /\ reqs[2].pc = "responded"
        /\ MultiKey("daily") \in DOMAIN cache
        /\ cache[MultiKey("daily")].data = reqs[2].response.body
        /\ cache[MultiKey("daily")].timestamp = reqs[2].response.body.generatedAt)
       => cache'[MultiKey("daily")] = cache[MultiKey("daily")]]_vars

\* ------------------------------------------------------------------------
\* The two discovery methods are never mixed
\* ------------------------------------------------------------------------
\* the names of the organization's repositories among the first k entries of
\* the user listing
UserNamesUpTo(k) ==
    Names(OwnedBy(SubSeq(origin.userRepos.items, 1, k), orgName))

\* C29: getAllRepositories never mixes the two discovery methods: when the
\* organization listing answers every page and holds at least one
\* repository, its names are returned and the user listing is not read;
\* when it fails on some page or holds no repository, the user listing is
\* read and the returned names are names of the user listing only, whatever
\* the organization pages pushed before.
C29_MethodsNotMixed ==
    [][/\ (pc = "discover" /\ orgName # "") =>
              IF ~ListingFails(origin.orgRepos) /\ origin.orgRepos.items # <<>>
              THEN /\ pc' = "discovered"
                   /\ reposToTrack' = Names(origin.orgRepos.items)
              ELSE pc' = "fallback"
       /\ pc = "fallback" =>
              /\ pc' = "discovered"
              /\ \E k \in 0..Len(origin.userRepos.items) :
                     reposToTrack' = UserNamesUpTo(k)]_vars

\* the organization listing failed on its second page after a full first
\* page, and the names returned are the three of the user listing
C29_Witness ==
    /\ pc = "discovered"
    /\ orgName = "Acme"
    /\ origin.orgRepos = Listing(FillerRepos(perPage, "Acme") \o <<RepoEntry("r1", "Acme")>>, 2)
    /\ origin.userRepos = Listing(FiveUserRepos, 0)
    /\ reposToTrack = <<"r1", "r3", "r5">>

\* ------------------------------------------------------------------------
\* Auto-discovery runs twice within one aggregateStats call
\* ------------------------------------------------------------------------
\* every repository has one contributor of its own, so that the roster
\* shows which repositories it was read from
OwnContributor == [r \in Repos |-> IF r = "r1" THEN "alice" ELSE "carol"]

\* the origin's repository listings between the discovery pass of
\* aggregateStats and the one of getAllContributors: a repository appears
\* or disappears, or a request starts to be rejected
ListingChanges ==
    /\ pc = "roster"
    /\ \E org \in OrgRepoListings, user \in UserRepoListings :
          /\ <<org, user>> # <<origin.orgRepos, origin.userRepos>>
          /\ origin' = [origin EXCEPT !.orgRepos = org, !.userRepos = user]
    /\ UNCHANGED <<srvVars, calcVars, ghVars, orgName, repositories, pc, reposToTrack,
                   allContributors, aggregatedStats, aggKeys, statsByRepo, completed,
                   commits, idx, devStats, devKeys, mergeIdx, result, report>>

\* a tracker in auto-discovery mode for the organization
InitDrift ==
    /\ orgName = "Acme"
    /\ repositories = [isNull |-> TRUE, list |-> <<>>]
    /\ origin \in [orgRepos : OrgRepoListings, userRepos : UserRepoListings,
                   contributors : {[r \in Repos |-> Listing(<<OwnContributor[r]>>, 0)]},
                   commits : [Repos -> {NoListing, Listing(<<cA1>>, 0)}]]
    /\ GhIdle
    /\ CalcIdle
    /\ SrvIdle
    /\ pc = "start"
    /\ reposToTrack = <<>>
    /\ allContributors = <<>>
    /\ aggregatedStats = EmptyMap
    /\ aggKeys = <<>>
    /\ statsByRepo = EmptyMap
    /\ completed = 0
    /\ commits = <<>>
    /\ idx = 0
    /\ devStats = EmptyMap
    /\ devKeys = <<>>
    /\ mergeIdx = 0
    /\ result = NoResult
    /\ report = NoReport

NextDrift ==
    \/ ResolveScope
    \/ ListingChanges
    \/ ResolveRoster
    \/ NextRepo
    \/ FoldCommit
    \/ StoreRepoStats
    \/ MergeDev
    \/ EndRepo
    \/ ReturnStats

SpecDrift == InitDrift /\ [][NextDrift]_vars

\* the repositories whose contributors are in the returned roster
RosterRepos == {r \in Repos : OwnContributor[r] \in Range(result.allContributors)}

\* C30: within one aggregateStats call in auto-discovery mode, the
\* repositories whose contributors form the roster are the repositories
\* whose commits are aggregated (the keys of byRepo), whatever the origin's
\* repository listings answer, a listing that fails or changes between the
\* two discovery passes included.
C30_RosterScopeIsAggregatedScope ==
    result.returned => RosterRepos = DOMAIN result.byRepo
====
